---- MODULE Spec2Model ----
(***************************************************************************)
(* A model of the C AST crate of rustc_codegen_c: the type universe and    *)
(* the declarator printer (ty.rs), functions (func.rs), statements         *)
(* (stmt.rs), declarations (decl.rs), expressions (expr.rs), the module    *)
(* container (module.rs) and the box printer they print through            *)
(* (pretty.rs over rustc_ast_pretty::pp).                                  *)
(***************************************************************************)
EXTENDS Integers, Sequences, FiniteSets, TLC

(***************************************************************************)
(* Bounds of the model.                                                    *)
(***************************************************************************)
MaxLayers == 4
MaxTys == 3
MaxParams == 2
MaxBody == 3
MaxIssued == 3
MaxIncludes == 2
MaxDecls == 1
MaxFuncs == 2
MaxEmits == 2
MaxNodes == 2
MaxPushes == 2
MaxDepth == 10

(***************************************************************************)
(* Program constants.                                                      *)
(***************************************************************************)
INDENT == 2
MARGIN == 78
MIN_SPACE == 60
SIZE_INFINITY == 65535

(***************************************************************************)
(* ty.rs: the type universe.  A CTy is a record; k is the variant, w the   *)
(* integer width of Int/UInt and h the address of the interned CTyKind of  *)
(* a Ref (an index into the arena of compound types).                      *)
(***************************************************************************)
CIntTy == {"Isize", "I8", "I16", "I32", "I64"}
CUintTy == {"Usize", "U8", "U16", "U32", "U64"}

Void == [k |-> "Void", w |-> "", h |-> 0]
Bool == [k |-> "Bool", w |-> "", h |-> 0]
Char == [k |-> "Char", w |-> "", h |-> 0]
CTy_Int(w) == [k |-> "Int", w |-> w, h |-> 0]
CTy_UInt(w) == [k |-> "UInt", w |-> w, h |-> 0]
Ref(h) == [k |-> "Ref", w |-> "", h |-> h]

Pointer(ty) == [kind |-> "Pointer", ty |-> ty, dim |-> 0]
Array(ty, dim) == [kind |-> "Array", ty |-> ty, dim |-> dim]

is_signed(ty) == ty.k = "Int"

is_primitive(ty) == ty.k \in {"Void", "Bool", "Char", "Int", "UInt"}

is_array(arena, ty) == ty.k = "Ref" /\ arena[ty.h].kind = "Array"

\* Mutant: the signed pointer-sized integer gets the signed POSIX name.
CIntTy_to_str_Ssize(w) ==
  CASE w = "Isize" -> "ssize_t"
    [] w = "I8" -> "int8_t"
    [] w = "I16" -> "int16_t"
    [] w = "I32" -> "int32_t"
    [] w = "I64" -> "int64_t"

CIntTy_to_str(w) ==
  CASE w = "Isize" -> "size_t"
    [] w = "I8" -> "int8_t"
    [] w = "I16" -> "int16_t"
    [] w = "I32" -> "int32_t"
    [] w = "I64" -> "int64_t"

CUintTy_to_str(w) ==
  CASE w = "Usize" -> "size_t"
    [] w = "U8" -> "uint8_t"
    [] w = "U16" -> "uint16_t"
    [] w = "U32" -> "uint32_t"
    [] w = "U64" -> "uint64_t"

\* The value a panicking operation (unreachable!, unimplemented!) yields.
Fatal == "<fatal>"

to_str(ty) ==
  CASE ty.k = "Void" -> "void"
    [] ty.k = "Bool" -> "_Bool"
    [] ty.k = "Char" -> "char"
    [] ty.k = "Int" -> CIntTy_to_str(ty.w)
    [] ty.k = "UInt" -> CUintTy_to_str(ty.w)
    [] ty.k = "Ref" -> Fatal

CIntTy_max_value(w) ==
  CASE w = "Isize" -> "SIZE_MAX"
    [] w = "I8" -> "INT8_MAX"
    [] w = "I16" -> "INT16_MAX"
    [] w = "I32" -> "INT32_MAX"
    [] w = "I64" -> "INT64_MAX"

CUintTy_max_value(w) ==
  CASE w = "Usize" -> "SIZE_MAX"
    [] w = "U8" -> "UINT8_MAX"
    [] w = "U16" -> "UINT16_MAX"
    [] w = "U32" -> "UINT32_MAX"
    [] w = "U64" -> "UINT64_MAX"

\* Mutant: char has the limit macro of <limits.h>.
max_value_CharMax(ty) ==
  CASE ty.k = "Int" -> CIntTy_max_value(ty.w)
    [] ty.k = "UInt" -> CUintTy_max_value(ty.w)
    [] ty.k = "Char" -> "CHAR_MAX"
    [] OTHER -> Fatal

max_value(ty) ==
  CASE ty.k = "Int" -> CIntTy_max_value(ty.w)
    [] ty.k = "UInt" -> CUintTy_max_value(ty.w)
    [] OTHER -> Fatal

CIntTy_to_unsigned(w) ==
  CASE w = "Isize" -> "Usize"
    [] w = "I8" -> "U8"
    [] w = "I16" -> "U16"
    [] w = "I32" -> "U32"
    [] w = "I64" -> "U64"

\* The outcome of a type-valued operation that panicked.
FatalTy == [k |-> "Fatal", w |-> "", h |-> 0]

\* Mutant: a type that is already unsigned is returned as it is.
to_unsigned_KeepUnsigned(ty) ==
  CASE ty.k = "Int" -> CTy_UInt(CIntTy_to_unsigned(ty.w))
    [] ty.k = "UInt" -> ty
    [] OTHER -> FatalTy

to_unsigned(ty) ==
  CASE ty.k = "Int" -> CTy_UInt(CIntTy_to_unsigned(ty.w))
    [] OTHER -> FatalTy

\* rustc_type_ir::IntTy and UintTy, the arguments of get_int_type and
\* get_uint_type.
IntTy == {"Isize", "I8", "I16", "I32", "I64", "I128"}
UintTy == {"Usize", "U8", "U16", "U32", "U64", "U128"}

\* Mutant: a 128-bit integer is given the widest type there is.
get_int_type_Widest(int) ==
  CASE int = "Isize" -> CTy_Int("Isize")
    [] int = "I8" -> CTy_Int("I8")
    [] int = "I16" -> CTy_Int("I16")
    [] int = "I32" -> CTy_Int("I32")
    [] int = "I64" -> CTy_Int("I64")
    [] int = "I128" -> CTy_Int("I64")

get_int_type(int) ==
  CASE int = "Isize" -> CTy_Int("Isize")
    [] int = "I8" -> CTy_Int("I8")
    [] int = "I16" -> CTy_Int("I16")
    [] int = "I32" -> CTy_Int("I32")
    [] int = "I64" -> CTy_Int("I64")
    [] int = "I128" -> FatalTy

get_uint_type(uint) ==
  CASE uint = "Usize" -> CTy_UInt("Usize")
    [] uint = "U8" -> CTy_UInt("U8")
    [] uint = "U16" -> CTy_UInt("U16")
    [] uint = "U32" -> CTy_UInt("U32")
    [] uint = "U64" -> CTy_UInt("U64")
    [] uint = "U128" -> FatalTy

(***************************************************************************)
(* expr.rs: values.                                                        *)
(***************************************************************************)
Scalar(i) == [k |-> "Scalar", n |-> i, s |-> ""]
Local(i) == [k |-> "Local", n |-> i, s |-> ""]
Func(name) == [k |-> "Func", n |-> 0, s |-> name]
\* Option<CValue>::None
None == [k |-> "None", n |-> 0, s |-> ""]

(***************************************************************************)
(* pretty.rs: PrinterCtx.  Every printing function is modelled by the      *)
(* sequence of tokens it hands to pp::Printer; a function that takes a     *)
(* closure takes the tokens the closure emits.  A panic is the token       *)
(* PanicTok: nothing that follows it reaches the output.                   *)
(***************************************************************************)
StringTok(s) ==
  [t |-> "String", s |-> s, blank |-> 0, off |-> 0, br |-> "", vis |-> FALSE]
BreakTok(blank, off) ==
  [t |-> "Break", s |-> "", blank |-> blank, off |-> off, br |-> "", vis |-> FALSE]
BeginTok(off, br, vis) ==
  [t |-> "Begin", s |-> "", blank |-> 0, off |-> off, br |-> br, vis |-> vis]
EndTok ==
  [t |-> "End", s |-> "", blank |-> 0, off |-> 0, br |-> "", vis |-> FALSE]
PanicTok ==
  [t |-> "Panic", s |-> "", blank |-> 0, off |-> 0, br |-> "", vis |-> FALSE]

Panicked(toks) == \E i \in 1..Len(toks) : toks[i].t = "Panic"

word(s) == IF s = Fatal THEN <<PanicTok>> ELSE <<StringTok(s)>>

nbsp == word(" ")

break_offset(n, off) == <<BreakTok(n, off)>>

\* Mutant: the soft break asks for no space.
softbreak_NoSpace == break_offset(0, 0)

softbreak == break_offset(1, 0)

hardbreak == break_offset(SIZE_INFINITY, 0)

zerobreak == break_offset(0, 0)

word_space(s) == word(s) \o softbreak

\* Mutant: the box is opened and never closed.
ibox_NoEnd(indent, body) == <<BeginTok(indent, "I", FALSE)>> \o body

ibox(indent, body) == <<BeginTok(indent, "I", FALSE)>> \o body \o <<EndTok>>

cbox(indent, body) == <<BeginTok(indent, "C", FALSE)>> \o body \o <<EndTok>>

valign(body) == <<BeginTok(0, "C", TRUE)>> \o body \o <<EndTok>>

ibox_delim(indent, open, close, padding, body) ==
  ibox(indent, word(open) \o break_offset(padding, 0) \o body \o word(close))

cbox_delim(indent, open, close, padding, body) ==
  cbox(indent, word(open) \o break_offset(padding, 0) \o body
               \o break_offset(padding, 0 - indent) \o word(close))

valign_delim(open, close, body) == valign(word(open) \o body \o word(close))

(***************************************************************************)
(* rustc_ast_pretty::pp::Printer, the engine behind PrinterCtx: the scan   *)
(* pass gives every Begin and Break the length of what must fit on the     *)
(* line with it, the print pass lays the tokens out.                       *)
(***************************************************************************)
Last(seq) == seq[Len(seq)]

Front(seq) == SubSeq(seq, 1, Len(seq) - 1)

\* The scanner: the indices of the buffered tokens whose size is still open
\* (stack), the size of every token scanned so far (size, one entry pushed
\* per token as the ring buffer does) and the running total (right).
\* check_stack: resolve the sizes of the entries on top of the scan stack.
RECURSIVE check_stack(_, _, _)
check_stack(toks, sc, depth) ==
  IF sc.stack = <<>> THEN sc
  ELSE LET i == Last(sc.stack)
           popped == [sc EXCEPT !.stack = Front(@)]
       IN  CASE toks[i].t = "Begin" ->
                  IF depth = 0 THEN sc
                  ELSE check_stack(toks,
                         [popped EXCEPT !.size[i] = @ + sc.right], depth - 1)
             [] toks[i].t = "End" ->
                  check_stack(toks, [popped EXCEPT !.size[i] = 1], depth + 1)
             [] OTHER ->
                  LET sized == [popped EXCEPT !.size[i] = @ + sc.right]
                  IN  IF depth = 0 THEN sized
                      ELSE check_stack(toks, sized, depth)

scan_begin(sc, i) ==
  [sc EXCEPT !.size = Append(@, 0 - sc.right), !.stack = Append(@, i)]

scan_end(sc, i) ==
  IF sc.stack = <<>> THEN [sc EXCEPT !.size = Append(@, 0)]
  ELSE [sc EXCEPT !.size = Append(@, -1), !.stack = Append(@, i)]

scan_break(toks, sc, i) ==
  LET c == IF sc.stack = <<>> THEN sc ELSE check_stack(toks, sc, 0)
  IN  [c EXCEPT !.size = Append(@, 0 - c.right),
                !.stack = Append(@, i),
                !.right = @ + toks[i].blank]

scan_string(toks, sc, i) ==
  IF sc.stack = <<>> THEN [sc EXCEPT !.size = Append(@, Len(toks[i].s))]
  ELSE [sc EXCEPT !.size = Append(@, Len(toks[i].s)), !.right = @ + Len(toks[i].s)]

scan_eof(toks, sc) ==
  IF sc.stack = <<>> THEN sc ELSE check_stack(toks, sc, 0)

scan_token(toks, sc, i) ==
  CASE toks[i].t = "Begin" -> scan_begin(sc, i)
    [] toks[i].t = "End" -> scan_end(sc, i)
    [] toks[i].t = "Break" -> scan_break(toks, sc, i)
    [] toks[i].t = "String" -> scan_string(toks, sc, i)

\* The scan of tokens lo..hi in order, folded by halves.
RECURSIVE ScanRange(_, _, _, _)
ScanRange(toks, sc, lo, hi) ==
  IF lo > hi THEN sc
  ELSE IF lo = hi THEN scan_token(toks, sc, lo)
  ELSE LET mid == (lo + hi) \div 2
           left == ScanRange(toks, sc, lo, mid)
       IN  IF Len(left.size) < mid THEN left
           ELSE ScanRange(toks, left, mid + 1, hi)

Sizes(toks) ==
  LET start == [stack |-> <<>>, size |-> <<>>, right |-> 1]
  IN  scan_eof(toks, ScanRange(toks, start, 1, Len(toks))).size

RECURSIVE Spaces(_)
Spaces(n) == IF n <= 0 THEN "" ELSE " " \o Spaces(n - 1)

Max(a, b) == IF a >= b THEN a ELSE b

Printer_new ==
  [lines |-> <<"">>, space |-> MARGIN, indent |-> 0, pending |-> 0,
   stack |-> <<>>, fatal |-> FALSE]

\* A frame of the print stack: Fits, or Broken with the indent to restore.
Fits == [broken |-> FALSE, indent |-> 0, br |-> ""]
Broken(indent, br) == [broken |-> TRUE, indent |-> indent, br |-> br]

get_top(pr) ==
  IF pr.stack = <<>> THEN Broken(0, "I") ELSE Last(pr.stack)

print_begin(pr, tok, size) ==
  IF size > pr.space
  THEN LET ind == IF tok.vis THEN MARGIN - pr.space ELSE pr.indent + tok.off
       IN  IF ind < 0 THEN [pr EXCEPT !.fatal = TRUE]
           ELSE [pr EXCEPT !.stack = Append(@, Broken(pr.indent, tok.br)),
                           !.indent = ind]
  ELSE [pr EXCEPT !.stack = Append(@, Fits)]

print_end(pr) ==
  LET top == Last(pr.stack)
  IN  [pr EXCEPT !.stack = Front(@),
                 !.indent = IF top.broken THEN top.indent ELSE @]

break_fits(pr, size) ==
  LET top == get_top(pr)
  IN  \/ ~top.broken
      \/ top.br = "I" /\ size <= pr.space

print_break(pr, tok, size) ==
  IF break_fits(pr, size)
  THEN [pr EXCEPT !.pending = @ + tok.blank, !.space = @ - tok.blank]
  ELSE LET ind == pr.indent + tok.off
       IN  [pr EXCEPT !.lines = Append(@, ""),
                      !.pending = ind,
                      !.space = Max(MARGIN - ind, MIN_SPACE)]

print_string(pr, s) ==
  [pr EXCEPT !.lines[Len(pr.lines)] = @ \o Spaces(pr.pending) \o s,
             !.pending = 0,
             !.space = @ - Len(s)]

print_token(toks, size, pr, i) ==
  IF pr.fatal THEN pr
  ELSE CASE toks[i].t = "Begin" -> print_begin(pr, toks[i], size[i])
         [] toks[i].t = "End" -> print_end(pr)
         [] toks[i].t = "Break" -> print_break(pr, toks[i], size[i])
         [] toks[i].t = "String" -> print_string(pr, toks[i].s)

\* The print of tokens lo..hi in order, folded by halves.
RECURSIVE PrintRange(_, _, _, _, _)
PrintRange(toks, size, pr, lo, hi) ==
  IF lo > hi THEN pr
  ELSE IF lo = hi THEN print_token(toks, size, pr, lo)
  ELSE LET mid == (lo + hi) \div 2
           left == PrintRange(toks, size, pr, lo, mid)
       IN  IF left.fatal THEN left
           ELSE PrintRange(toks, size, left, mid + 1, hi)

RECURSIVE JoinLines(_)
JoinLines(lines) ==
  IF Len(lines) = 1 THEN lines[1]
  ELSE lines[1] \o "\n" \o JoinLines(Tail(lines))

\* The printer after pp::Printer::eof on the tokens.
Layout(toks) ==
  IF Panicked(toks) THEN [Printer_new EXCEPT !.fatal = TRUE]
  ELSE PrintRange(toks, Sizes(toks), Printer_new, 1, Len(toks))

\* PrinterCtx::finish: the text, or Fatal when a panic unwound.
finish(toks) ==
  LET pr == Layout(toks)
  IN  IF pr.fatal THEN Fatal ELSE JoinLines(pr.lines)

(***************************************************************************)
(* expr.rs: impl Print for CValue.                                         *)
(***************************************************************************)
CValue_print_to(val) ==
  CASE val.k = "Scalar" -> word(ToString(val.n))
    [] val.k = "Local" -> word("_" \o ToString(val.n))
    [] val.k = "Func" -> word(val.s)

(***************************************************************************)
(* ty.rs: print_declarator.                                                *)
(***************************************************************************)
Ident(val) == [p |-> "Ident", v |-> val, dim |-> 0]
Ptr == [p |-> "Ptr", v |-> None, dim |-> 0]
ArrayDim(dim) == [p |-> "ArrayDim", v |-> None, dim |-> dim]
Lp == [p |-> "Lp", v |-> None, dim |-> 0]
Rp == [p |-> "Rp", v |-> None, dim |-> 0]

DeclaratorPart_print_to(part) ==
  CASE part.p = "Ident" -> CValue_print_to(part.v)
    [] part.p = "Ptr" -> word("*")
    [] part.p = "ArrayDim" -> word("[" \o ToString(part.dim) \o "]")
    [] part.p = "Lp" -> word("(")
    [] part.p = "Rp" -> word(")")

\* Mutant: push_front adds at the back of the deque.
push_front_Back(parts, part) == Append(parts, part)

push_front(parts, part) == <<part>> \o parts

push_back(parts, part) == Append(parts, part)

\* Mutant: the parentheses are added around every pointer layer.
PointerStep_AlwaysParens(arena, pointee, parts) ==
  push_back(push_front(push_front(parts, Ptr), Lp), Rp)

\* One iteration of the loop `while let CTy::Ref(kind) = ty`.
PointerStep(arena, pointee, parts) ==
  LET starred == push_front(parts, Ptr)
  IN  IF is_array(arena, pointee)
      THEN push_back(push_front(starred, Lp), Rp)
      ELSE starred

\* Mutant: the dimension is pushed to the front of the deque.
ArrayStep_Front(dim, parts) == push_front(parts, ArrayDim(dim))

ArrayStep(dim, parts) == push_back(parts, ArrayDim(dim))

\* The whole loop: the type left when it ends, the parts and the number of
\* iterations it took.
RECURSIVE Unwrap(_, _, _, _)
Unwrap(arena, ty, parts, iters) ==
  IF ty.k = "Ref"
  THEN LET kind == arena[ty.h]
       IN  Unwrap(arena, kind.ty,
                  IF kind.kind = "Pointer"
                  THEN PointerStep(arena, kind.ty, parts)
                  ELSE ArrayStep(kind.dim, parts),
                  iters + 1)
  ELSE [ty |-> ty, parts |-> parts, iters |-> iters]

\* `for part in decl_parts { part.print_to(ctx); }`
RECURSIVE PrintParts(_)
PrintParts(parts) ==
  IF parts = <<>> THEN <<>>
  ELSE DeclaratorPart_print_to(Head(parts)) \o PrintParts(Tail(parts))

\* Mutant: the space is emitted only when an identifier was given.
NeedsSpace_IdentOnly(val, parts) == val # None

\* `val.is_some() || !decl_parts.is_empty()`
NeedsSpace(val, parts) == val # None \/ parts # <<>>

print_declarator(arena, ty, val) ==
  LET seed == IF val # None THEN <<Ident(val)>> ELSE <<>>
      u == Unwrap(arena, ty, seed, 0)
  IN  word(to_str(u.ty))
      \o (IF NeedsSpace(val, u.parts) THEN nbsp ELSE <<>>)
      \o PrintParts(u.parts)

(***************************************************************************)
(* expr.rs: expressions and their printing.                                *)
(***************************************************************************)
raw(s) == [e |-> "Raw", s |-> s]
value(v) == [e |-> "Value", v |-> v]
binary(lhs, rhs, op) == [e |-> "Binary", lhs |-> lhs, rhs |-> rhs, op |-> op]
cast(ty, expr) == [e |-> "Cast", ty |-> ty, expr |-> expr]
call(callee, args) == [e |-> "Call", callee |-> callee, args |-> args]
member(expr, field) == [e |-> "Member", expr |-> expr, arrow |-> FALSE, field |-> field]

RECURSIVE CExpr_print_to(_, _)
RECURSIVE seperated_exprs(_, _, _)
RECURSIVE seperated_exprs_NoBreak(_, _, _)

\* Mutant: the separator is a bare word, with no break after it.
seperated_exprs_NoBreak(arena, sep, elements) ==
  IF elements = <<>> THEN <<>>
  ELSE LET first == CExpr_print_to(arena, Head(elements))
           rest == Tail(elements)
       IN  IF rest = <<>> THEN first
           ELSE first \o word(sep) \o seperated_exprs_NoBreak(arena, sep, rest)

\* PrinterCtx::seperated over a list of expressions.
seperated_exprs(arena, sep, elements) ==
  IF elements = <<>> THEN <<>>
  ELSE LET first == CExpr_print_to(arena, Head(elements))
           rest == Tail(elements)
       IN  IF rest = <<>> THEN first
           ELSE first \o word_space(sep) \o seperated_exprs(arena, sep, rest)

CExpr_print_to(arena, expr) ==
  CASE expr.e = "Raw" -> word(expr.s)
    [] expr.e = "Value" -> CValue_print_to(expr.v)
    [] expr.e = "Binary" ->
         ibox_delim(INDENT, "(", ")", 0,
           ibox(0 - INDENT, CExpr_print_to(arena, expr.lhs))
           \o softbreak \o word(expr.op) \o nbsp
           \o CExpr_print_to(arena, expr.rhs))
    [] expr.e = "Cast" ->
         ibox(INDENT,
           word("(") \o print_declarator(arena, expr.ty, None) \o word(")")
           \o nbsp \o CExpr_print_to(arena, expr.expr))
    [] expr.e = "Call" ->
         ibox(INDENT,
           CExpr_print_to(arena, expr.callee)
           \o cbox_delim(INDENT, "(", ")", 0,
                seperated_exprs(arena, ",", expr.args)))
    [] expr.e = "Member" ->
         cbox(INDENT,
           CExpr_print_to(arena, expr.expr) \o zerobreak
           \o word(IF expr.arrow THEN "->" ELSE ".")
           \o word(expr.field))

(***************************************************************************)
(* decl.rs: declarations.                                                  *)
(***************************************************************************)
\* Option<CExpr>::None
NoExpr == [e |-> "None"]

var(name, ty, init) == [d |-> "Var", name |-> name, ty |-> ty, init |-> init]

\* Mutant: the declaration leaves the ";" to the statement that holds it.
CDecl_print_to_NoSemicolon(arena, decl) ==
  ibox(INDENT,
    print_declarator(arena, decl.ty, decl.name)
    \o (IF decl.init # NoExpr
        THEN word(" =") \o softbreak \o CExpr_print_to(arena, decl.init)
        ELSE <<>>))

CDecl_print_to(arena, decl) ==
  ibox(INDENT,
    print_declarator(arena, decl.ty, decl.name)
    \o (IF decl.init # NoExpr
        THEN word(" =") \o softbreak \o CExpr_print_to(arena, decl.init)
        ELSE <<>>)
    \o word(";"))

(***************************************************************************)
(* stmt.rs: statements.                                                    *)
(***************************************************************************)
compound(stmts) == [s |-> "Compound", stmts |-> stmts]
ret(expr) == [s |-> "Return", expr |-> expr]
decl_stmt(decl) == [s |-> "Decl", decl |-> decl]
expr_stmt(expr) == [s |-> "Expr", expr |-> expr]

RECURSIVE CStmt_print_to(_, _)
RECURSIVE print_rest(_, _)
RECURSIVE print_rest_Reversed(_, _)
RECURSIVE print_compound(_, _)

\* Mutant: the rest of the statements is printed last to first.
print_rest_Reversed(arena, rest) ==
  IF rest = <<>> THEN <<>>
  ELSE hardbreak \o CStmt_print_to(arena, Last(rest))
       \o print_rest_Reversed(arena, Front(rest))

\* `for stmt in rest { ctx.hardbreak(); stmt.print_to(ctx); }`
print_rest(arena, rest) ==
  IF rest = <<>> THEN <<>>
  ELSE hardbreak \o CStmt_print_to(arena, Head(rest))
       \o print_rest(arena, Tail(rest))

print_compound(arena, stmts) ==
  cbox_delim(INDENT, "{", "}", 1,
    IF stmts = <<>> THEN <<>>
    ELSE CStmt_print_to(arena, Head(stmts)) \o print_rest(arena, Tail(stmts)))

CStmt_print_to(arena, stmt) ==
  CASE stmt.s = "Compound" -> print_compound(arena, stmt.stmts)
    [] stmt.s = "Return" ->
         ibox(INDENT,
           word("return")
           \o (IF stmt.expr # NoExpr
               THEN softbreak \o CExpr_print_to(arena, stmt.expr)
               ELSE <<>>)
           \o word(";"))
    [] stmt.s = "Decl" -> CDecl_print_to(arena, stmt.decl)
    [] stmt.s = "Expr" -> CExpr_print_to(arena, stmt.expr) \o word(";")

(***************************************************************************)
(* func.rs: functions.                                                     *)
(***************************************************************************)
\* `.enumerate().map(|(i, ty)| (ty, CValue::Local(i)))`
EnumerateParams(params) ==
  [i \in 1..Len(params) |-> <<params[i], Local(i - 1)>>]

\* Mutant: the fresh-local counter starts at zero.
CFuncKind_new_ZeroCounter(name, ty, params) ==
  [name |-> name, ty |-> ty, params |-> EnumerateParams(params),
   body |-> <<>>, local_var_counter |-> 0]

CFuncKind_new(name, ty, params) ==
  [name |-> name, ty |-> ty, params |-> EnumerateParams(params),
   body |-> <<>>, local_var_counter |-> Len(params)]

\* Mutant: a statement already in the body is not pushed again.
push_stmt_Dedup(f, stmt) ==
  IF \E i \in 1..Len(f.body) : f.body[i] = stmt THEN f
  ELSE [f EXCEPT !.body = Append(@, stmt)]

\* push_stmt on the function kind `f`: the function after the call.
push_stmt(f, stmt) == [f EXCEPT !.body = Append(@, stmt)]

\* Mutant: the counter is read but not advanced.
next_local_var_NoIncrement(f) ==
  [val |-> Local(f.local_var_counter), func |-> f]

\* next_local_var on the function kind `f`: the value returned and the
\* function after the call.
next_local_var(f) ==
  [val |-> Local(f.local_var_counter),
   func |-> [f EXCEPT !.local_var_counter = @ + 1]]

RECURSIVE seperated_params(_, _, _)
\* PrinterCtx::seperated over the parameter list of a signature.
seperated_params(arena, sep, elements) ==
  IF elements = <<>> THEN <<>>
  ELSE LET p == Head(elements)
           first == ibox(0, print_declarator(arena, p[1], p[2]))
           rest == Tail(elements)
       IN  IF rest = <<>> THEN first
           ELSE first \o word_space(sep) \o seperated_params(arena, sep, rest)

print_signature(arena, func) ==
  ibox(0,
    print_declarator(arena, func.ty, Func(func.name))
    \o valign_delim("(", ")", seperated_params(arena, ",", func.params)))

\* Mutant: the prototype is the bare signature.
print_func_decl_NoSemicolon(arena, func) == print_signature(arena, func)

print_func_decl(arena, func) == print_signature(arena, func) \o word(";")

CFunc_print_to(arena, func) ==
  ibox(0,
    print_signature(arena, func) \o softbreak
    \o print_compound(arena, func.body))

(***************************************************************************)
(* module.rs: the module.                                                  *)
(***************************************************************************)
Module_new(helper) ==
  [includes |-> <<>>, helper |-> helper, decls |-> <<>>, funcs |-> <<>>]

\* Mutant: an include already in the list is not pushed again.
push_include_Dedup(m, include) ==
  IF \E i \in 1..Len(m.includes) : m.includes[i] = include THEN m
  ELSE [m EXCEPT !.includes = Append(@, include)]

push_include(m, include) == [m EXCEPT !.includes = Append(@, include)]

push_decl(m, decl) == [m EXCEPT !.decls = Append(@, decl)]

push_func(m, func) == [m EXCEPT !.funcs = Append(@, func)]

\* Mutant: printing takes the function list out of the module.
Module_borrowed_TakeFuncs(m) == [m EXCEPT !.funcs = <<>>]

\* The module after print_to(&self, ..): each list was only borrowed
\* (`self.includes.borrow()`, `self.decls.borrow()`, `self.funcs.borrow()`).
Module_borrowed(m) == m

RECURSIVE print_includes(_)
print_includes(includes) ==
  IF includes = <<>> THEN <<>>
  ELSE word("#include <") \o word(Head(includes)) \o word(">") \o hardbreak
       \o print_includes(Tail(includes))

RECURSIVE print_decls(_, _)
RECURSIVE print_decls_OneBreak(_, _)

\* Mutant: a declaration starts on the line after what precedes it.
print_decls_OneBreak(arena, decls) ==
  IF decls = <<>> THEN <<>>
  ELSE hardbreak \o CDecl_print_to(arena, Head(decls))
       \o print_decls_OneBreak(arena, Tail(decls))

\* `for &decl in self.decls.borrow().iter()`
print_decls(arena, decls) ==
  IF decls = <<>> THEN <<>>
  ELSE hardbreak \o hardbreak \o CDecl_print_to(arena, Head(decls))
       \o print_decls(arena, Tail(decls))

RECURSIVE print_func_decls(_, _, _)
print_func_decls(arena, fa, funcs) ==
  IF funcs = <<>> THEN <<>>
  ELSE hardbreak \o print_func_decl(arena, fa[Head(funcs)])
       \o print_func_decls(arena, fa, Tail(funcs))

RECURSIVE print_funcs(_, _, _)
print_funcs(arena, fa, funcs) ==
  IF funcs = <<>> THEN <<>>
  ELSE hardbreak \o hardbreak \o CFunc_print_to(arena, fa[Head(funcs)])
       \o print_funcs(arena, fa, Tail(funcs))

\* Mutant: every function is defined where it is declared.
Module_print_to_Interleaved(arena, fa, m) ==
  cbox(0,
    print_includes(m.includes)
    \o hardbreak \o word(m.helper)
    \o print_decls(arena, m.decls)
    \o (IF m.funcs = <<>> THEN <<>>
        ELSE print_func_decls(arena, fa, <<Head(m.funcs)>>)
             \o print_funcs(arena, fa, <<Head(m.funcs)>>)
             \o print_func_decls(arena, fa, Tail(m.funcs))
             \o print_funcs(arena, fa, Tail(m.funcs)))
    \o hardbreak)

\* impl Print for Module; `fa` is the arena of functions the handles in
\* m.funcs point into.
Module_print_to(arena, fa, m) ==
  cbox(0,
    print_includes(m.includes)
    \o hardbreak \o word(m.helper)
    \o print_decls(arena, m.decls)
    \o print_func_decls(arena, fa, m.funcs)
    \o print_funcs(arena, fa, m.funcs)
    \o hardbreak)

\* impl Display for ModuleCtx
ModuleCtx_fmt(arena, fa, m) == finish(Module_print_to(arena, fa, m))

(***************************************************************************)
(* The state: the arena of compound types, the arena of functions, the     *)
(* module, the result of the latest print call (out), the log of the       *)
(* calls made on each function (calls) and, where the nodes are told apart *)
(* by the place they were allocated at, the arena of expressions,          *)
(* statements and declarations (nodeArena).  For the test drivers, files   *)
(* is what they find on disk.                                              *)
(***************************************************************************)
VARIABLES tyArena, funcArena, module, out, calls, nodeArena, files

vars == <<tyArena, funcArena, module, out, calls, nodeArena, files>>

I32 == CTy_Int("I32")
I64 == CTy_Int("I64")

NoOut == [op |-> "none"]

\* The strings of a sequence of tokens, in emission order.
Words(toks) == [i \in 1..Len(toks) |-> toks[i].s]

(***************************************************************************)
(* SpecDecl: print_declarator as a function of its inputs.  The arena      *)
(* holds one chain of pointer and array layers over a primitive base; the  *)
(* action prints a type of the arena with or without an identifier.        *)
(***************************************************************************)
Dims == {3, 5, 10}
BaseTys == {Void, I32}
LayerInputs == {[kind |-> "Pointer", dim |-> 0]} \cup {[kind |-> "Array", dim |-> d] : d \in Dims}
IdentInputs == {None, Func("foo")} \cup {Local(i) : i \in 0..4}

\* The arena after building, innermost layer first, the layers `ls` over `base`.
ChainArena(base, ls) ==
  [i \in 1..Len(ls) |->
     LET inner == IF i = 1 THEN base ELSE Ref(i - 1)
     IN  IF ls[i].kind = "Pointer" THEN Pointer(inner) ELSE Array(inner, ls[i].dim)]

ChainArenas ==
  {ChainArena(b, ls) : b \in BaseTys,
                       ls \in UNION {[1..n -> LayerInputs] : n \in 0..MaxLayers}}

TysOf(arena) == BaseTys \cup {Ref(h) : h \in 1..Len(arena)}

InitDecl ==
  /\ tyArena \in ChainArenas
  /\ nodeArena = <<>>
  /\ files = <<>>
  /\ funcArena = <<>>
  /\ module = Module_new("")
  /\ out = NoOut
  /\ calls = <<>>

PrintDeclarator(ty, val) ==
  /\ out = NoOut
  /\ LET ctx == print_declarator(tyArena, ty, val)
     IN  out' = [op |-> "print_declarator", ty |-> ty, val |-> val,
                 words |-> Words(ctx), text |-> finish(ctx)]
  /\ UNCHANGED <<tyArena, funcArena, module, calls, nodeArena, files>>

NextDecl ==
  \E ty \in TysOf(tyArena), val \in IdentInputs : PrintDeclarator(ty, val)

SpecDecl == InitDecl /\ [][NextDecl]_vars

(***************************************************************************)
(* What the claims about print_declarator speak of: the layers of a type,  *)
(* outermost first, and its primitive base.                                *)
(***************************************************************************)
RECURSIVE LayersOf(_, _)
LayersOf(arena, ty) ==
  IF ty.k = "Ref"
  THEN <<[kind |-> arena[ty.h].kind, dim |-> arena[ty.h].dim]>>
         \o LayersOf(arena, arena[ty.h].ty)
  ELSE <<>>

RECURSIVE BaseOf(_, _)
BaseOf(arena, ty) == IF ty.k = "Ref" THEN BaseOf(arena, arena[ty.h].ty) ELSE ty

\* The pointer layers of `ls` whose pointee is an array layer.
PointerOverArray(ls) ==
  {i \in 1..(Len(ls) - 1) : ls[i].kind = "Pointer" /\ ls[i + 1].kind = "Array"}

Count(words, w) == Cardinality({i \in DOMAIN words : words[i] = w})

IsPrinted == out.op = "print_declarator"

\* C1: print_declarator emits exactly one "(" and one ")" for each pointer
\* layer whose pointee is an array type and none for any other layer, so
\* parentheses appear iff some pointer layer directly wraps an array layer.
C1_ParensPerPointerToArray ==
  IsPrinted =>
    LET n == Cardinality(PointerOverArray(LayersOf(tyArena, out.ty)))
    IN  /\ Count(out.words, "(") = n
        /\ Count(out.words, ")") = n
        /\ (Count(out.words, "(") > 0 <=> PointerOverArray(LayersOf(tyArena, out.ty)) # {})

\* C1 happens: an abstract declarator with two pointer-to-array layers.
C1_Witness ==
  /\ IsPrinted
  /\ out.val = None
  /\ Cardinality(PointerOverArray(LayersOf(tyArena, out.ty))) = 2
  /\ Count(out.words, "(") = 2

\* The text of an identifier.
IdentText(val) ==
  IF val.k = "Func" THEN val.s ELSE "_" \o ToString(val.n)

\* The part list of the claim: start from `list`, process the layers in
\* order, a pointer puts "*" at the front, an array puts "[N]" at the back.
RECURSIVE ClaimParts(_, _)
ClaimParts(ls, list) ==
  IF ls = <<>> THEN list
  ELSE ClaimParts(Tail(ls),
         IF Head(ls).kind = "Pointer"
         THEN <<"*">> \o list
         ELSE list \o <<"[" \o ToString(Head(ls).dim) \o "]">>)

NotParen(w) == w \notin {"(", ")"}

PtrL == [kind |-> "Pointer", dim |-> 0]
ArrL(n) == [kind |-> "Array", dim |-> n]

\* C2: with an identifier v the output is the base name, one space, and the
\* part list built from [v] by putting "*" at the front for a pointer layer
\* and "[N]" at the back for an array layer, outermost layer first (the
\* parentheses of C1 aside); the four named examples print as stated.
C2_PartListOrder ==
  (IsPrinted /\ out.val # None) =>
    LET ls == LayersOf(tyArena, out.ty)
        base == BaseOf(tyArena, out.ty)
        is(l, v) == ls = l /\ base = I32 /\ out.val = v
    IN  /\ Len(out.words) >= 3
        /\ out.words[1] = to_str(base)
        /\ out.words[2] = " "
        /\ SelectSeq(SubSeq(out.words, 3, Len(out.words)), NotParen)
             = ClaimParts(ls, <<IdentText(out.val)>>)
        /\ is(<<PtrL>>, Local(1)) => out.text = "int32_t *_1"
        /\ is(<<ArrL(10)>>, Local(2)) => out.text = "int32_t _2[10]"
        /\ is(<<PtrL, ArrL(10)>>, Local(3)) => out.text = "int32_t (*_3)[10]"
        /\ is(<<ArrL(3), PtrL, ArrL(5)>>, Local(4)) => out.text = "int32_t (*_4[3])[5]"

\* C2 happens: array[3] of pointer to array[5] of i32 named _4 was printed.
C2_Witness ==
  /\ IsPrinted
  /\ out.val = Local(4)
  /\ LayersOf(tyArena, out.ty) = <<ArrL(3), PtrL, ArrL(5)>>
  /\ BaseOf(tyArena, out.ty) = I32
  /\ out.text = "int32_t (*_4[3])[5]"

\* C3: one separating space follows the base type name iff a declarator
\* part follows (an identifier was given or the type has a layer); an
\* abstract declarator of a primitive is the bare name ("void"), an
\* abstract pointer to i32 is "int32_t *".
C3_SpaceIffParts ==
  IsPrinted =>
    LET ls == LayersOf(tyArena, out.ty)
        base == BaseOf(tyArena, out.ty)
        parts == out.val # None \/ ls # <<>>
    IN  /\ out.words[1] = to_str(base)
        /\ Count(out.words, " ") = (IF parts THEN 1 ELSE 0)
        /\ parts => (Len(out.words) >= 3 /\ out.words[2] = " ")
        /\ ~parts => out.text = to_str(base)
        /\ (out.val = None /\ out.ty = Void) => out.text = "void"
        /\ (out.val = None /\ ls = <<PtrL>> /\ base = I32) => out.text = "int32_t *"

\* C3 happens: the abstract pointer to i32 was printed (a part, no identifier).
C3_Witness ==
  /\ IsPrinted
  /\ out.val = None
  /\ LayersOf(tyArena, out.ty) = <<PtrL>>
  /\ out.text = "int32_t *"

\* The layers of `ls` of one kind, in order.
LayersOfKind(ls, kind) == SelectSeq(ls, LAMBDA l : l.kind = kind)

DimWord(dim) == "[" \o ToString(dim) \o "]"

IsDimWord(w) == \E d \in Dims : w = DimWord(d)

\* C28: for a type with p pointer layers and a array layers over a primitive
\* base, print_declarator emits exactly p "*" tokens and exactly a "[N]"
\* tokens, the lengths in outermost-to-innermost layer order; the identifier,
\* when given, is emitted exactly once; and the parentheses are balanced,
\* every "(" before the place of the identifier and every ")" after it.
C28_StarsDimsIdentParens ==
  IsPrinted =>
    LET ls == LayersOf(tyArena, out.ty)
        arrays == LayersOfKind(ls, "Array")
        ws == out.words
    IN  /\ Count(ws, "*") = Len(LayersOfKind(ls, "Pointer"))
        /\ SelectSeq(ws, IsDimWord) = [i \in 1..Len(arrays) |-> DimWord(arrays[i].dim)]
        /\ out.val # None => Count(ws, IdentText(out.val)) = 1
        /\ Count(ws, "(") = Count(ws, ")")
        /\ \E k \in 1..(Len(ws) + 1) :
             /\ out.val # None => (k <= Len(ws) /\ ws[k] = IdentText(out.val))
             /\ \A i \in DOMAIN ws :
                  /\ ws[i] = "(" => i < k
                  /\ ws[i] = ")" => IF out.val = None THEN i >= k ELSE i > k

\* C28 happens: a named declarator with two pointer and two array layers,
\* both pointers over an array, was printed.
C28_Witness ==
  /\ IsPrinted
  /\ out.val = Func("foo")
  /\ LayersOf(tyArena, out.ty) = <<PtrL, ArrL(3), PtrL, ArrL(10)>>
  /\ out.text = "int32_t (*(*foo)[3])[10]"

(***************************************************************************)
(* SpecTy: building compound types.  A CTyKind is placed in memory and     *)
(* wrapped as CTy::Ref(Interned::new_unchecked(&kind)); the handle is the  *)
(* address, and Interned compares by address.                              *)
(***************************************************************************)
AllocInputs == {I32, I64}

\* The arena after placing `kind` at a fresh address.
alloc(arena, kind) == Append(arena, kind)

InitTy ==
  /\ tyArena = <<>>
  /\ nodeArena = <<>>
  /\ files = <<>>
  /\ funcArena = <<>>
  /\ module = Module_new("")
  /\ out = NoOut
  /\ calls = <<>>

AllocPointer(ty) ==
  /\ Len(tyArena) < MaxTys
  /\ tyArena' = alloc(tyArena, Pointer(ty))
  /\ out' = [op |-> "alloc", ty |-> Ref(Len(tyArena'))]
  /\ UNCHANGED <<funcArena, module, calls, nodeArena, files>>

AllocArray(ty, dim) ==
  /\ Len(tyArena) < MaxTys
  /\ tyArena' = alloc(tyArena, Array(ty, dim))
  /\ out' = [op |-> "alloc", ty |-> Ref(Len(tyArena'))]
  /\ UNCHANGED <<funcArena, module, calls, nodeArena, files>>

NextTy ==
  \E ty \in AllocInputs \cup {Ref(h) : h \in 1..Len(tyArena)} :
    \/ AllocPointer(ty)
    \/ \E dim \in Dims : AllocArray(ty, dim)

SpecTy == InitTy /\ [][NextTy]_vars

\* C4: two compound-type handles are identical iff their structural values
\* (layers and base) are equal.
C4_IdenticalIffStructurallyEqual ==
  \A h1, h2 \in 1..Len(tyArena) :
    (Ref(h1) = Ref(h2)) <=>
      /\ LayersOf(tyArena, Ref(h1)) = LayersOf(tyArena, Ref(h2))
      /\ BaseOf(tyArena, Ref(h1)) = BaseOf(tyArena, Ref(h2))

(***************************************************************************)
(* SpecFunc: the life of one function: CFuncKind::new, then push_stmt and  *)
(* next_local_var in any interleaving.  calls logs, per function, the      *)
(* arguments of new, the values next_local_var returned and the statements *)
(* passed to push_stmt, in call order.                                     *)
(***************************************************************************)
U8 == CTy_UInt("U8")
ParamInputs == {I32, U8}
RetInputs == {I32, Void}
StmtInputs ==
  { ret(NoExpr),
    decl_stmt(var(Local(1), I32, NoExpr)),
    expr_stmt(binary(value(Local(1)), value(Scalar(1)), "=")),
    compound(<<ret(value(Local(0))), ret(NoExpr)>>) }

InitFunc ==
  /\ tyArena = <<>>
  /\ nodeArena = <<>>
  /\ files = <<>>
  /\ funcArena = <<>>
  /\ module = Module_new("")
  /\ out = NoOut
  /\ calls = <<>>

NewFunc(name, ty, params) ==
  /\ funcArena = <<>>
  /\ funcArena' = Append(funcArena, CFuncKind_new(name, ty, params))
  /\ calls' = Append(calls, [name |-> name, ty |-> ty, given |-> params,
                             issued |-> <<>>, pushed |-> <<>>])
  /\ UNCHANGED <<tyArena, module, out, nodeArena, files>>

PushStmt(f, stmt) ==
  /\ Len(calls[f].pushed) < MaxBody
  /\ funcArena' = [funcArena EXCEPT ![f] = push_stmt(@, stmt)]
  /\ calls' = [calls EXCEPT ![f].pushed = Append(@, stmt)]
  /\ UNCHANGED <<tyArena, module, out, nodeArena, files>>

NextLocalVar(f) ==
  /\ Len(calls[f].issued) < MaxIssued
  /\ LET r == next_local_var(funcArena[f])
     IN  /\ funcArena' = [funcArena EXCEPT ![f] = r.func]
         /\ calls' = [calls EXCEPT ![f].issued = Append(@, r.val)]
  /\ UNCHANGED <<tyArena, module, out, nodeArena, files>>

NextFunc ==
  \/ \E ty \in RetInputs,
        params \in UNION {[1..n -> ParamInputs] : n \in 0..MaxParams} :
       NewFunc("foo", ty, params)
  \/ \E f \in DOMAIN funcArena, stmt \in StmtInputs : PushStmt(f, stmt)
  \/ \E f \in DOMAIN funcArena : NextLocalVar(f)

SpecFunc == InitFunc /\ [][NextFunc]_vars

\* C5: for a function with P parameters the k-th call to next_local_var
\* returns Local(P + k - 1), whatever push_stmt calls are interleaved: the
\* indices increase strictly, none is issued twice, none is a parameter's.
C5_KthLocalIsPPlusK ==
  \A f \in DOMAIN funcArena :
    LET P == Len(funcArena[f].params)
        iss == calls[f].issued
    IN  \A k \in 1..Len(iss) :
          /\ iss[k] = Local(P + k - 1)
          /\ \A j \in 1..(k - 1) : iss[j].n < iss[k].n
          /\ \A i \in 1..P : funcArena[f].params[i][2] # iss[k]

\* C5 happens: two parameters, three locals issued with a push in between.
C5_Witness ==
  \E f \in DOMAIN funcArena :
    /\ Len(funcArena[f].params) = 2
    /\ Len(calls[f].issued) = 3
    /\ Len(calls[f].pushed) >= 1

\* C6: CFuncKind::new with N parameter types gives the parameter list
\* (type i, Local(i)) in the given order, an empty body and a counter of N,
\* so with no parameters the first fresh local is Local(0).
C6_NewSeedsParamsAndCounter ==
  \A f \in DOMAIN funcArena :
    LET fn == funcArena[f]
        c == calls[f]
        N == Len(c.given)
    IN  /\ Len(fn.params) = N
        /\ \A i \in 1..N : fn.params[i] = <<c.given[i], Local(i - 1)>>
        /\ (c.issued = <<>> /\ c.pushed = <<>>) =>
             (fn.body = <<>> /\ fn.local_var_counter = N)
        /\ (N = 0 /\ c.issued # <<>>) => c.issued[1] = Local(0)

\* C6 happens: a function was just made from two different parameter types.
C6_Witness ==
  \E f \in DOMAIN funcArena :
    /\ calls[f].given = <<I32, U8>>
    /\ calls[f].issued = <<>>
    /\ calls[f].pushed = <<>>
    /\ funcArena[f].local_var_counter = 2

\* C7: the body is the sequence of the statements pushed, in call order
\* (nothing removed, reordered or deduplicated), and push_stmt leaves the
\* name, the return type, the parameters and the local counter as they were.
C7_BodyIsPushedInOrder ==
  \A f \in DOMAIN funcArena :
    LET fn == funcArena[f]
        c == calls[f]
    IN  /\ fn.body = c.pushed
        /\ fn.name = c.name
        /\ fn.ty = c.ty
        /\ fn.params = [i \in 1..Len(c.given) |-> <<c.given[i], Local(i - 1)>>]
        /\ fn.local_var_counter = Len(c.given) + Len(c.issued)

\* C7 happens: the same statement pushed twice around a next_local_var call.
C7_Witness ==
  \E f \in DOMAIN funcArena :
    /\ Len(calls[f].pushed) = 3
    /\ calls[f].pushed[1] = calls[f].pushed[3]
    /\ calls[f].pushed[1] # calls[f].pushed[2]
    /\ Len(calls[f].issued) >= 1
    /\ Len(funcArena[f].body) = 3

(***************************************************************************)
(* SpecStmt: print_compound as a function of the statement list.  The      *)
(* list is the body of a function, built by push_stmt calls.               *)
(***************************************************************************)
RECURSIVE PushAll(_, _)
PushAll(f, stmts) ==
  IF stmts = <<>> THEN f ELSE PushAll(push_stmt(f, Head(stmts)), Tail(stmts))

InitStmt ==
  /\ tyArena = <<>>
  /\ nodeArena = <<>>
  /\ files = <<>>
  /\ \E b \in UNION {[1..n -> StmtInputs] : n \in 0..MaxBody} :
       /\ funcArena = <<PushAll(CFuncKind_new("foo", Void, <<>>), b)>>
       /\ calls = <<[name |-> "foo", ty |-> Void, given |-> <<>>,
                     issued |-> <<>>, pushed |-> b]>>
  /\ module = Module_new("")
  /\ out = NoOut

PrintCompound(f) ==
  /\ out = NoOut
  /\ LET ctx == print_compound(tyArena, funcArena[f].body)
     IN  out' = [op |-> "print_compound", stmts |-> funcArena[f].body,
                 lines |-> Layout(ctx).lines, text |-> finish(ctx)]
  /\ UNCHANGED <<tyArena, funcArena, module, calls, nodeArena, files>>

NextStmt == \E f \in DOMAIN funcArena : PrintCompound(f)

SpecStmt == InitStmt /\ [][NextStmt]_vars

\* The lines of a statement printed alone.
StmtLines(stmt) == Layout(CStmt_print_to(tyArena, stmt)).lines

IndentLines(lines) == [i \in 1..Len(lines) |-> Spaces(INDENT) \o lines[i]]

RECURSIVE BlockLines(_)
BlockLines(stmts) ==
  IF stmts = <<>> THEN <<>>
  ELSE IndentLines(StmtLines(Head(stmts))) \o BlockLines(Tail(stmts))

\* C8: a compound statement of n >= 2 statements renders as "{", then the
\* rendering of every statement in list order, each starting its own
\* line, then "}": none omitted, repeated or reordered.
C8_BlockInListOrder ==
  (out.op = "print_compound" /\ Len(out.stmts) >= 2) =>
    out.lines = <<"{">> \o BlockLines(out.stmts) \o <<"}">>

\* C8 happens: a block of three statements, the first listed again last.
C8_Witness ==
  /\ out.op = "print_compound"
  /\ Len(out.stmts) = 3
  /\ out.stmts[1] = out.stmts[3]
  /\ out.stmts[1] # out.stmts[2]
  /\ out.lines[1] = "{"
  /\ out.lines[Len(out.lines)] = "}"

(***************************************************************************)
(* SpecMod: a module over an arena of two functions.  Includes,            *)
(* declarations and function handles are pushed in any order and any       *)
(* number up to the bounds, and the module is emitted at any time, any     *)
(* number of times.  calls logs the arguments of the pushes, per list and  *)
(* in call order, and the texts emitted since the latest push; out is the  *)
(* latest emission of the module as it stands.                             *)
(***************************************************************************)
IncludeInputs == {"stdio.h", "stdint.h"}

DeclInputs ==
  {var(Local(42), I32, NoExpr), var(Local(7), U8, value(Scalar(1)))}

\* The function of tests/module.rs: a local from next_local_var, then its
\* declaration, an assignment to it and its return pushed in that order.
TestFoo ==
  LET made == next_local_var(CFuncKind_new("foo", I32, <<I32>>))
      x == made.val
  IN  PushAll(made.func,
              <<decl_stmt(var(x, I32, NoExpr)),
                expr_stmt(binary(value(x), value(Scalar(1)), "=")),
                ret(value(x))>>)

\* TestFoo, and a function whose body fits on a line.
FuncInputs ==
  <<TestFoo,
    PushAll(CFuncKind_new("bar", Void, <<I32, U8>>), <<ret(NoExpr)>>)>>

Helper == "// blessed test"

InitMod ==
  /\ tyArena = <<>>
  /\ nodeArena = <<>>
  /\ files = <<>>
  /\ funcArena = FuncInputs
  /\ module = Module_new(Helper)
  /\ out = NoOut
  /\ calls = [includes |-> <<>>, decls |-> <<>>, funcs |-> <<>>, emitted |-> <<>>]

PushInclude(name) ==
  /\ Len(calls.includes) < MaxIncludes
  /\ module' = push_include(module, name)
  /\ calls' = [calls EXCEPT !.includes = Append(@, name), !.emitted = <<>>]
  /\ out' = NoOut
  /\ UNCHANGED <<tyArena, funcArena, nodeArena, files>>

PushDecl(decl) ==
  /\ Len(calls.decls) < MaxDecls
  /\ module' = push_decl(module, decl)
  /\ calls' = [calls EXCEPT !.decls = Append(@, decl), !.emitted = <<>>]
  /\ out' = NoOut
  /\ UNCHANGED <<tyArena, funcArena, nodeArena, files>>

PushFunc(h) ==
  /\ Len(calls.funcs) < MaxFuncs
  /\ module' = push_func(module, h)
  /\ calls' = [calls EXCEPT !.funcs = Append(@, h), !.emitted = <<>>]
  /\ out' = NoOut
  /\ UNCHANGED <<tyArena, funcArena, nodeArena, files>>

\* `format!("{}", module_ctx)`: the text, and the module print_to leaves.
EmitModule ==
  /\ Len(calls.emitted) < MaxEmits
  /\ LET toks == Module_print_to(tyArena, funcArena, module)
     IN  /\ out' = [op |-> "emit", text |-> finish(toks),
                    lines |-> Layout(toks).lines]
         /\ calls' = [calls EXCEPT !.emitted = Append(@, finish(toks))]
  /\ module' = Module_borrowed(module)
  /\ UNCHANGED <<tyArena, funcArena, nodeArena, files>>

NextMod ==
  \/ \E name \in IncludeInputs : PushInclude(name)
  \/ \E decl \in DeclInputs : PushDecl(decl)
  \/ \E h \in DOMAIN funcArena : PushFunc(h)
  \/ EmitModule

SpecMod == InitMod /\ [][NextMod]_vars

\* A prototype and a definition printed alone.
ProtoText(h) == finish(print_func_decl(tyArena, funcArena[h]))

DefLines(h) == Layout(CFunc_print_to(tyArena, funcArena[h])).lines

DefText(h) == finish(CFunc_print_to(tyArena, funcArena[h]))

DeclText(decl) == finish(CDecl_print_to(tyArena, decl))

\* The prototype lines of the pushed functions, in push order.
ProtoLinesOf(funcs) == [i \in 1..Len(funcs) |-> ProtoText(funcs[i])]

\* The definitions of the pushed functions in push order, a blank line
\* before each.
RECURSIVE DefLinesOf(_)
DefLinesOf(funcs) ==
  IF funcs = <<>> THEN <<>>
  ELSE <<"">> \o DefLines(Head(funcs)) \o DefLinesOf(Tail(funcs))

\* A line that belongs to a function: a prototype, or the first line of a
\* definition.
IsFuncLine(line) ==
  \E h \in DOMAIN funcArena : line = ProtoText(h) \/ line = DefLines(h)[1]

\* C9: the emitted text has one prototype and one definition per pushed
\* function; the prototypes come first, in push order, then the
\* definitions, in push order, and no other line of the text is a
\* prototype or starts a definition.
C9_PrototypesThenDefinitions ==
  out.op = "emit" =>
    LET P == ProtoLinesOf(module.funcs)
        D == DefLinesOf(module.funcs)
        k == Len(out.lines) - Len(P) - Len(D) - 1
    IN  /\ k >= 0
        /\ SubSeq(out.lines, k + 1, Len(out.lines)) = P \o D \o <<"">>
        /\ \A i \in 1..k : ~IsFuncLine(out.lines[i])

\* C9 happens: bar was pushed before foo and the module was emitted.
C9_Witness ==
  /\ out.op = "emit"
  /\ module.funcs = <<2, 1>>
  /\ out.text # Fatal

RECURSIVE IncludeSection(_)
IncludeSection(includes) ==
  IF includes = <<>> THEN ""
  ELSE "#include <" \o Head(includes) \o ">\n" \o IncludeSection(Tail(includes))

RECURSIVE DeclSection(_)
DeclSection(decls) ==
  IF decls = <<>> THEN ""
  ELSE "\n\n" \o DeclText(Head(decls)) \o DeclSection(Tail(decls))

RECURSIVE ProtoSection(_)
ProtoSection(funcs) ==
  IF funcs = <<>> THEN ""
  ELSE "\n" \o ProtoText(Head(funcs)) \o ProtoSection(Tail(funcs))

RECURSIVE DefSection(_)
DefSection(funcs) ==
  IF funcs = <<>> THEN ""
  ELSE "\n\n" \o DefText(Head(funcs)) \o DefSection(Tail(funcs))

Occurrences(seq, v) == Cardinality({i \in DOMAIN seq : seq[i] = v})

Prims ==
  {Void, Bool, Char} \cup {CTy_Int(w) : w \in CIntTy} \cup {CTy_UInt(w) : w \in CUintTy}

PrimArenas ==
  {<<Pointer(b)>> : b \in Prims} \cup {<<Array(b, d)>> : b \in Prims, d \in Dims}

InitPrim ==
  /\ tyArena \in PrimArenas
  /\ nodeArena = <<>>
  /\ files = <<>>
  /\ funcArena = <<>>
  /\ module = Module_new("")
  /\ out = NoOut
  /\ calls = <<>>

Applied(op, arg, res) ==
  /\ out' = [op |-> op, arg |-> arg, res |-> res]
  /\ UNCHANGED <<tyArena, funcArena, module, calls, nodeArena, files>>

IsSigned(ty) == Applied("is_signed", ty, is_signed(ty))

ToUnsigned(ty) == Applied("to_unsigned", ty, to_unsigned(ty))

ToStr(ty) == Applied("to_str", ty, to_str(ty))

MaxValue(ty) == Applied("max_value", ty, max_value(ty))

GetIntType(int) == Applied("get_int_type", int, get_int_type(int))

GetUintType(uint) == Applied("get_uint_type", uint, get_uint_type(uint))

NextPrim ==
  \/ \E ty \in Prims \cup {Ref(h) : h \in DOMAIN tyArena} :
       \/ IsSigned(ty)
       \/ ToUnsigned(ty)
       \/ ToStr(ty)
       \/ MaxValue(ty)
  \/ \E int \in IntTy : GetIntType(int)
  \/ \E uint \in UintTy : GetUintType(uint)

SpecPrim == InitPrim /\ [][NextPrim]_vars

\* The table of the specification: type, C name, limit macro.
NameTable ==
  {<<CTy_Int("I8"), "int8_t", "INT8_MAX">>,
   <<CTy_Int("I16"), "int16_t", "INT16_MAX">>,
   <<CTy_Int("I32"), "int32_t", "INT32_MAX">>,
   <<CTy_Int("I64"), "int64_t", "INT64_MAX">>,
   <<CTy_UInt("U8"), "uint8_t", "UINT8_MAX">>,
   <<CTy_UInt("U16"), "uint16_t", "UINT16_MAX">>,
   <<CTy_UInt("U32"), "uint32_t", "UINT32_MAX">>,
   <<CTy_UInt("U64"), "uint64_t", "UINT64_MAX">>,
   <<CTy_Int("Isize"), "size_t", "SIZE_MAX">>,
   <<CTy_UInt("Usize"), "size_t", "SIZE_MAX">>}

IsInteger(ty) == ty.k \in {"Int", "UInt"}

\* C13: on every integer type to_str and max_value return the entry of the
\* table; the signed and the unsigned pointer-sized integer share size_t
\* and SIZE_MAX.
C13_NameTable ==
  /\ \A ty \in Prims : IsInteger(ty) => \E row \in NameTable : row[1] = ty
  /\ (out.op = "to_str" /\ IsInteger(out.arg)) =>
       \E row \in NameTable : row[1] = out.arg /\ row[2] = out.res
  /\ (out.op = "max_value" /\ IsInteger(out.arg)) =>
       \E row \in NameTable : row[1] = out.arg /\ row[3] = out.res

\* C13 happens: to_str was applied to the signed pointer-sized integer and
\* gave the name the unsigned one has.
C13_Witness ==
  /\ out.op = "to_str"
  /\ out.arg = CTy_Int("Isize")
  /\ out.res = "size_t"
  /\ out.res = to_str(CTy_UInt("Usize"))

\* The width of a primitive integer type: 0 for the pointer-sized ones.
Bits(ty) ==
  CASE ty.w \in {"Isize", "Usize"} -> 0
    [] ty.w \in {"I8", "U8"} -> 8
    [] ty.w \in {"I16", "U16"} -> 16
    [] ty.w \in {"I32", "U32"} -> 32
    [] ty.w \in {"I64", "U64"} -> 64

\* C14: to_unsigned of a signed integer type is the unsigned type of the
\* same width, never a signed type; of any other type it is fatal.
C14_ToUnsigned ==
  out.op = "to_unsigned" =>
    IF out.arg.k = "Int"
    THEN /\ out.res.k = "UInt"
         /\ out.res \in Prims
         /\ Bits(out.res) = Bits(out.arg)
         /\ ~is_signed(out.res)
    ELSE out.res = FatalTy

\* C14 happens: to_unsigned was applied to the 16-bit signed integer.
C14_Witness ==
  /\ out.op = "to_unsigned"
  /\ out.arg = CTy_Int("I16")
  /\ out.res = CTy_UInt("U16")

\* C15: to_str names every primitive type and is fatal on every compound
\* type; max_value names a macro for every integer type and is fatal on
\* void, bool, char and every compound type.
C15_FatalOutsideDomain ==
  /\ out.op = "to_str" =>
       IF out.arg \in Prims THEN out.res # Fatal /\ Len(out.res) > 0
       ELSE out.res = Fatal
  /\ out.op = "max_value" =>
       IF IsInteger(out.arg) THEN out.res # Fatal /\ Len(out.res) > 0
       ELSE out.res = Fatal

\* C15 happens: max_value was applied to char.
C15_Witness ==
  /\ out.op = "max_value"
  /\ out.arg = Char
  /\ out.res = Fatal

\* C16: get_int_type and get_uint_type are fatal on the 128-bit width and
\* return the signed, respectively unsigned, primitive type of the width
\* asked for on every other.
C16_NoInt128 ==
  /\ out.op = "get_int_type" =>
       IF out.arg = "I128" THEN out.res = FatalTy
       ELSE out.res = CTy_Int(out.arg) /\ out.res \in Prims /\ is_signed(out.res)
  /\ out.op = "get_uint_type" =>
       IF out.arg = "U128" THEN out.res = FatalTy
       ELSE out.res = CTy_UInt(out.arg) /\ out.res \in Prims /\ ~is_signed(out.res)

\* C16 happens: the 128-bit signed integer type was asked for.
C16_Witness ==
  /\ out.op = "get_int_type"
  /\ out.arg = "I128"
  /\ out.res = FatalTy

\* The places of a sequence of lines where the lines `block` start.
StartsOf(lines, block) ==
  {i \in 1..(Len(lines) - Len(block) + 1) :
     SubSeq(lines, i, i + Len(block) - 1) = block}

FooPrototype == "int32_t foo(int32_t _0);"

FooDefinition ==
  <<"int32_t foo(int32_t _0)",
    "{",
    "  int32_t _1;",
    "  (_1 = 1);",
    "  return _1;",
    "}">>

\* C19: once foo (int32_t, one int32_t parameter, body: declaration of the
\* local from next_local_var, assignment, return) is pushed, every emission
\* has, per push of foo, the line 'int32_t foo(int32_t _0);' and, after all
\* of those lines, a definition with that signature whose braces hold the
\* declaration of _1, the assignment and the return, in that order, one
\* per line, each ending in ';'.
C19_FooEndToEnd ==
  (out.op = "emit" /\ \E i \in DOMAIN module.funcs : funcArena[module.funcs[i]] = TestFoo) =>
    LET n == Occurrences(module.funcs, 1)
        protos == {i \in DOMAIN out.lines : out.lines[i] = FooPrototype}
        defs == StartsOf(out.lines, FooDefinition)
    IN  /\ funcArena[1] = TestFoo
        /\ Cardinality(protos) = n
        /\ Cardinality(defs) = n
        /\ \A p \in protos, d \in defs : p < d

\* C19 happens: the module whose only function is foo was emitted.
C19_Witness ==
  /\ out.op = "emit"
  /\ module.funcs = <<1>>
  /\ funcArena[1].local_var_counter = 2
  /\ StartsOf(out.lines, FooDefinition) # {}

(***************************************************************************)
(* SpecGraph: the nodes as the arena holds them.  A node of nodeArena is   *)
(* an expression, a statement or a declaration; its children are handles   *)
(* (places of nodeArena, or types).  Every constructor allocates one node  *)
(* whose children were passed to it, so they are handles that exist when   *)
(* it is called.  A function's body and the module's lists hold handles.   *)
(***************************************************************************)
\* Mutant: a constructor can be handed the place its own node will get.
Allocated_OrNext(arena) == 1..(Len(arena) + 1)

\* The handles a caller can hold: `&'mx` references to allocated nodes.
Allocated(arena) == DOMAIN arena

Node(sort, kind, tys, kids) ==
  [sort |-> sort, kind |-> kind, tys |-> tys, kids |-> kids]

\* The sort a handle is typed with (CExpr, CStmt, CDecl); a handle's type
\* is fixed by the caller, whether or not a node is there yet.
HasSort(h, sort) == h \in DOMAIN nodeArena => nodeArena[h].sort = sort

HandlesOf(sort) == {h \in Allocated(nodeArena) : HasSort(h, sort)}

GraphTys == {I32} \cup {Ref(h) : h \in Allocated(tyArena)}

Constructions == Len(tyArena) + Len(nodeArena)

\* ModuleCtx::expr, stmt, decl: allocation of a node.
AllocNode(node) ==
  /\ Constructions < MaxNodes
  /\ nodeArena' = Append(nodeArena, node)
  /\ UNCHANGED <<tyArena, funcArena, module, out, calls, files>>

NewType ==
  /\ Constructions < MaxNodes
  /\ \E ty \in GraphTys :
       \/ tyArena' = alloc(tyArena, Pointer(ty))
       \/ tyArena' = alloc(tyArena, Array(ty, 10))
  /\ UNCHANGED <<funcArena, module, out, calls, nodeArena, files>>

NewExpr ==
  \/ AllocNode(Node("expr", "Raw", <<>>, <<>>))
  \/ AllocNode(Node("expr", "Value", <<>>, <<>>))
  \/ \E lhs, rhs \in HandlesOf("expr") :
       AllocNode(Node("expr", "Binary", <<>>, <<lhs, rhs>>))
  \/ \E ty \in GraphTys, e \in HandlesOf("expr") :
       AllocNode(Node("expr", "Cast", <<ty>>, <<e>>))
  \/ \E callee \in HandlesOf("expr") :
       \/ AllocNode(Node("expr", "Call", <<>>, <<callee>>))
       \/ \E arg \in HandlesOf("expr") :
            AllocNode(Node("expr", "Call", <<>>, <<callee, arg>>))
  \/ \E e \in HandlesOf("expr") :
       AllocNode(Node("expr", "Member", <<>>, <<e>>))

NewDecl ==
  \E ty \in GraphTys :
    \/ AllocNode(Node("decl", "Var", <<ty>>, <<>>))
    \/ \E init \in HandlesOf("expr") :
         AllocNode(Node("decl", "Var", <<ty>>, <<init>>))

NewStmt ==
  \/ AllocNode(Node("stmt", "Compound", <<>>, <<>>))
  \/ \E s1 \in HandlesOf("stmt") :
       \/ AllocNode(Node("stmt", "Compound", <<>>, <<s1>>))
       \/ \E s2 \in HandlesOf("stmt") :
            AllocNode(Node("stmt", "Compound", <<>>, <<s1, s2>>))
  \/ AllocNode(Node("stmt", "Return", <<>>, <<>>))
  \/ \E e \in HandlesOf("expr") :
       \/ AllocNode(Node("stmt", "Return", <<>>, <<e>>))
       \/ AllocNode(Node("stmt", "Expr", <<>>, <<e>>))
  \/ \E d \in HandlesOf("decl") :
       AllocNode(Node("stmt", "Decl", <<>>, <<d>>))

RECURSIVE SumLen(_)
SumLen(seqs) == IF seqs = <<>> THEN 0 ELSE Len(Head(seqs)) + SumLen(Tail(seqs))

Pushes ==
  SumLen([f \in DOMAIN funcArena |-> funcArena[f].body])
    + Len(module.decls) + Len(module.funcs)

\* ModuleCtx::func(CFuncKind::new(..)).
NewFuncHandle ==
  /\ funcArena = <<>>
  /\ funcArena' = <<CFuncKind_new("foo", Void, <<>>)>>
  /\ UNCHANGED <<tyArena, module, out, calls, nodeArena, files>>

PushStmtHandle ==
  \E f \in DOMAIN funcArena, h \in HandlesOf("stmt") \cap DOMAIN nodeArena :
    /\ Pushes < MaxPushes
    /\ funcArena' = [funcArena EXCEPT ![f] = push_stmt(@, h)]
    /\ UNCHANGED <<tyArena, module, out, calls, nodeArena, files>>

PushDeclHandle ==
  \E h \in HandlesOf("decl") \cap DOMAIN nodeArena :
    /\ Pushes < MaxPushes
    /\ module' = push_decl(module, h)
    /\ UNCHANGED <<tyArena, funcArena, out, calls, nodeArena, files>>

PushFuncHandle ==
  \E f \in DOMAIN funcArena :
    /\ Pushes < MaxPushes
    /\ module' = push_func(module, f)
    /\ UNCHANGED <<tyArena, funcArena, out, calls, nodeArena, files>>

InitGraph ==
  /\ tyArena = <<>>
  /\ nodeArena = <<>>
  /\ files = <<>>
  /\ funcArena = <<>>
  /\ module = Module_new("")
  /\ out = NoOut
  /\ calls = <<>>

NextGraph ==
  \/ NewType
  \/ NewExpr
  \/ NewDecl
  \/ NewStmt
  \/ NewFuncHandle
  \/ PushStmtHandle
  \/ PushDeclHandle
  \/ PushFuncHandle

SpecGraph == InitGraph /\ [][NextGraph]_vars

\* The vertices of the child-reference graph and the children of each.
TyVertex(h) == <<"ty", h>>
NodeVertex(h) == <<"node", h>>
FuncVertex(h) == <<"func", h>>
ModuleVertex == <<"module", 0>>

Vertices ==
  {TyVertex(h) : h \in DOMAIN tyArena} \cup {NodeVertex(h) : h \in DOMAIN nodeArena}
    \cup {FuncVertex(h) : h \in DOMAIN funcArena} \cup {ModuleVertex}

TyChild(ty) == IF ty.k = "Ref" THEN {TyVertex(ty.h)} ELSE {}

Range(seq) == {seq[i] : i \in DOMAIN seq}

ChildrenOf(v) ==
  CASE v[1] = "ty" -> TyChild(tyArena[v[2]].ty)
    [] v[1] = "node" ->
         UNION {TyChild(ty) : ty \in Range(nodeArena[v[2]].tys)}
           \cup {NodeVertex(h) : h \in Range(nodeArena[v[2]].kids)}
    [] v[1] = "func" -> {NodeVertex(h) : h \in Range(funcArena[v[2]].body)}
    [] v[1] = "module" ->
         {NodeVertex(h) : h \in Range(module.decls)}
           \cup {FuncVertex(h) : h \in Range(module.funcs)}

\* What is reachable from the vertices S in at most k steps, S included.
RECURSIVE ReachWithin(_, _)
ReachWithin(S, k) ==
  IF k = 0 THEN S
  ELSE ReachWithin(S \cup UNION {ChildrenOf(v) \cap Vertices : v \in S}, k - 1)

ReachableFrom(v) == ReachWithin(ChildrenOf(v), Cardinality(Vertices))

RECURSIVE Repeat(_, _)
Repeat(s, n) == IF n <= 0 THEN "" ELSE s \o Repeat(s, n - 1)

\* Identifiers: short, of middle length, just below and above the margin.
NameLens == {1, 23, 40, MARGIN, MARGIN + 2}

Names == {Func(Repeat("x", n)) : n \in NameLens}

WidthExprs ==
  {value(n) : n \in Names}
    \cup {call(value(callee), <<value(arg)>>) : callee, arg \in Names}
    \cup {binary(value(lhs), value(rhs), "+") : lhs, rhs \in Names}

WidthStmts ==
  {ret(e) : e \in WidthExprs}
    \cup {expr_stmt(e) : e \in WidthExprs}
    \cup {decl_stmt(var(n, I32, init)) : n \in Names, init \in WidthExprs \cup {NoExpr}}

\* A statement inside d blocks, each of which holds a second statement.
RECURSIVE Nested(_, _)
Nested(stmt, d) ==
  IF d = 0 THEN stmt ELSE compound(<<Nested(stmt, d - 1), ret(NoExpr)>>)

WidthProtos ==
  {CFuncKind_new(n.s, I32, params) :
     n \in Names, params \in UNION {[1..k -> {I32}] : k \in 0..MaxParams}}

InitWidth ==
  /\ tyArena = <<>>
  /\ nodeArena = <<>>
  /\ files = <<>>
  /\ funcArena = <<>>
  /\ module = Module_new("")
  /\ out = NoOut
  /\ calls = <<>>

Printed(tree, ctx) ==
  /\ out = NoOut
  /\ out' = [op |-> "layout", tree |-> tree, toks |-> ctx,
             fatal |-> Layout(ctx).fatal, lines |-> Layout(ctx).lines]
  /\ UNCHANGED <<tyArena, funcArena, module, calls, nodeArena, files>>

PrintStmtW ==
  \E stmt \in WidthStmts, d \in {0, MaxDepth} :
    Printed(Nested(stmt, d), CStmt_print_to(tyArena, Nested(stmt, d)))

PrintProtoW ==
  \E func \in WidthProtos : Printed(func, print_func_decl(tyArena, func))

NextWidth == PrintStmtW \/ PrintProtoW

SpecWidth == InitWidth /\ [][NextWidth]_vars

\* The indentation of a line and the text after it.
LeadOf(line) ==
  CHOOSE n \in 0..Len(line) :
    /\ SubSeq(line, 1, n) = Spaces(n)
    /\ n < Len(line) => SubSeq(line, n + 1, n + 1) # " "

ContentOf(line) == SubSeq(line, LeadOf(line) + 1, Len(line))

\* The room of a line: the margin less its indentation, MIN_SPACE at least.
RoomOf(line) == Max(MARGIN - LeadOf(line), MIN_SPACE)

Contains(line, s) ==
  \E k \in 1..(Len(line) - Len(s) + 1) : SubSeq(line, k, k + Len(s) - 1) = s

StartsWith(line, s) == Len(s) <= Len(line) /\ SubSeq(line, 1, Len(s)) = s

\* The runs of a token list: the words between one break and the next,
\* which no layout can separate.
RECURSIVE AfterBreak(_, _)
AfterBreak(toks, j) ==
  \/ j = 0
  \/ toks[j].t = "Break"
  \/ toks[j].t \in {"Begin", "End"} /\ AfterBreak(toks, j - 1)

RECURSIVE RunFrom(_, _)
RunFrom(toks, i) ==
  IF i > Len(toks) \/ toks[i].t = "Break" THEN ""
  ELSE toks[i].s \o RunFrom(toks, i + 1)

Runs(toks) ==
  {RunFrom(toks, i) :
     i \in {j \in 1..Len(toks) : toks[j].t = "String" /\ AfterBreak(toks, j - 1)}}

Laid == out.op = "layout" /\ ~out.fatal

\* C18 as stated: a line is no longer than the margin unless a single word
\* longer than the margin is on it.
C18_WidthOrOneWord ==
  Laid =>
    \A i \in 1..Len(out.lines) :
      \/ Len(out.lines[i]) <= MARGIN
      \/ \E t \in 1..Len(out.toks) :
           /\ out.toks[t].t = "String"
           /\ Len(out.toks[t].s) > MARGIN
           /\ Contains(out.lines[i], out.toks[t].s)

\* C18 as amended: the text of a line after its indentation is no longer
\* than the line's room (the margin less the indentation, or MIN_SPACE when
\* that is more), unless the line starts with a run of words with no break
\* between them that is itself longer than the room.
C18_RoomOrRun ==
  Laid =>
    \A i \in 1..Len(out.lines) :
      \/ Len(ContentOf(out.lines[i])) <= RoomOf(out.lines[i])
      \/ \E r \in Runs(out.toks) :
           /\ Len(r) > RoomOf(out.lines[i])
           /\ StartsWith(ContentOf(out.lines[i]), r)

\* C18 happens: a printed line passes the margin though no word does, once
\* by a run of words and once by the room kept for deeply indented lines.
C18_Witness ==
  /\ Laid
  /\ \A t \in 1..Len(out.toks) : Len(out.toks[t].s) <= MARGIN
  /\ \E i \in 1..Len(out.lines) :
       /\ Len(out.lines[i]) > MARGIN
       /\ Len(ContentOf(out.lines[i])) <= RoomOf(out.lines[i])
  /\ \E i \in 1..Len(out.lines) :
       /\ Len(ContentOf(out.lines[i])) > RoomOf(out.lines[i])
       /\ \E r \in Runs(out.toks) : StartsWith(ContentOf(out.lines[i]), r)

(***************************************************************************)
(* SpecEmit: `impl Display for ModuleCtx` step by step.  The module was    *)
(* built by pushes; out holds the call of fmt: the line it is at (pc), the *)
(* tokens handed to the printer so far and what was written to the         *)
(* formatter f, which is all the caller gets.                              *)
(***************************************************************************)
RECURSIVE PushedIncludes(_, _)
PushedIncludes(m, names) ==
  IF names = <<>> THEN m
  ELSE PushedIncludes(push_include(m, Head(names)), Tail(names))

RECURSIVE PushedDecls(_, _)
PushedDecls(m, decls) ==
  IF decls = <<>> THEN m ELSE PushedDecls(push_decl(m, Head(decls)), Tail(decls))

RECURSIVE PushedFuncs(_, _)
PushedFuncs(m, funcs) ==
  IF funcs = <<>> THEN m ELSE PushedFuncs(push_func(m, Head(funcs)), Tail(funcs))

InitEmit ==
  /\ tyArena = <<>>
  /\ nodeArena = <<>>
  /\ files = <<>>
  /\ funcArena = FuncInputs
  /\ \E names \in UNION {[1..n -> IncludeInputs] : n \in 0..MaxIncludes},
        decls \in UNION {[1..n -> DeclInputs] : n \in 0..MaxDecls},
        funcs \in {<<>>, <<1>>, <<2, 1>>} :
       module = PushedFuncs(PushedDecls(PushedIncludes(Module_new(Helper), names),
                                        decls), funcs)
  /\ out = NoOut
  /\ calls = <<>>

\* Mutant: the text laid out so far is written as soon as it is printed.
written_Eager(pc, toks) == finish(toks)

\* What fmt has written to f when it is at pc: nothing before its last
\* line, `write!(f, "{}", printer.finish())`.
written(pc, toks) == IF pc = "done" THEN finish(toks) ELSE ""

\* let mut printer = pretty::PrinterCtx::new();
FmtNew ==
  /\ out = NoOut
  /\ out' = [op |-> "fmt", pc |-> "new", printer |-> <<>>,
             f |-> written("new", <<>>)]
  /\ UNCHANGED <<tyArena, funcArena, module, calls, nodeArena, files>>

\* self.module().print_to(&mut printer); a panic unwinds out of fmt.
FmtPrint ==
  /\ out.op = "fmt"
  /\ out.pc = "new"
  /\ LET toks == Module_print_to(tyArena, funcArena, module)
         pc == IF Layout(toks).fatal THEN "aborted" ELSE "printed"
     IN  out' = [out EXCEPT !.pc = pc, !.printer = toks, !.f = written(pc, toks)]
  /\ module' = Module_borrowed(module)
  /\ UNCHANGED <<tyArena, funcArena, calls, nodeArena, files>>

\* write!(f, "{}", printer.finish())
FmtWrite ==
  /\ out.op = "fmt"
  /\ out.pc = "printed"
  /\ out' = [out EXCEPT !.pc = "done", !.f = written("done", out.printer)]
  /\ UNCHANGED <<tyArena, funcArena, module, calls, nodeArena, files>>

NextEmit == FmtNew \/ FmtPrint \/ FmtWrite

SpecEmit == InitEmit /\ [][NextEmit]_vars

\* The text of the whole module, section by section.
FullText ==
  IncludeSection(module.includes) \o "\n" \o module.helper
    \o DeclSection(module.decls) \o ProtoSection(module.funcs)
    \o DefSection(module.funcs) \o "\n"

BreakKinds == {"soft", "hard", "zero"}

BoxKinds == {"ibox", "cbox"}

WordLens == {1, 30, 50}

BreakWords ==
  {<<Repeat("a", l[1]), Repeat("b", l[2]), Repeat("c", l[3])>> :
     l \in [1..3 -> WordLens]}

\* ctx.softbreak(), ctx.hardbreak() or ctx.zerobreak()
BreakOf(kind) ==
  CASE kind = "soft" -> softbreak
    [] kind = "hard" -> hardbreak
    [] kind = "zero" -> zerobreak

\* ctx.ibox(INDENT, ..) or ctx.cbox(INDENT, ..) around word, break, word,
\* break, word.
BoxOf(box, ws, ks) ==
  LET body == word(ws[1]) \o BreakOf(ks[1]) \o word(ws[2])
                \o BreakOf(ks[2]) \o word(ws[3])
  IN  IF box = "ibox" THEN ibox(INDENT, body) ELSE cbox(INDENT, body)

InitBreak ==
  /\ tyArena = <<>>
  /\ nodeArena = <<>>
  /\ files = <<>>
  /\ funcArena = <<>>
  /\ module = Module_new("")
  /\ out = NoOut
  /\ calls = <<>>

PrintBox ==
  /\ out = NoOut
  /\ \E box \in BoxKinds, ws \in BreakWords, ks \in [1..2 -> BreakKinds] :
       out' = [op |-> "breaks", box |-> box, ws |-> ws, ks |-> ks,
               lines |-> Layout(BoxOf(box, ws, ks)).lines]
  /\ UNCHANGED <<tyArena, funcArena, module, calls, nodeArena, files>>

NextBreak == PrintBox

SpecBreak == InitBreak /\ [][NextBreak]_vars

\* What a break that is not a newline puts between two words.
BlankOf(kind) == IF kind = "soft" THEN " " ELSE ""

\* The lines of the three words when break j is a newline iff nl[j]; a new
\* line starts at the indent of the box.
LinesFor(ws, ks, nl) ==
  LET join(j, cur) == IF nl[j] THEN Spaces(INDENT) \o ws[j + 1]
                      ELSE cur \o BlankOf(ks[j]) \o ws[j + 1]
      l2 == join(1, ws[1])
      l3 == join(2, l2)
  IN  (IF nl[1] THEN <<ws[1]>> ELSE <<>>)
        \o (IF nl[2] THEN <<l2>> ELSE <<>>) \o <<l3>>

\* The box fits on one line: no hard break, and the words with their blanks
\* are no longer than the margin.
FlatWidth(ws, ks) ==
  Len(ws[1]) + Len(BlankOf(ks[1])) + Len(ws[2]) + Len(BlankOf(ks[2])) + Len(ws[3])

BoxFits(ws, ks) ==
  /\ \A j \in 1..2 : ks[j] # "hard"
  /\ FlatWidth(ws, ks) <= MARGIN

IsNewline(box, ws, ks, j, cur) ==
  \/ ks[j] = "hard"
  \/ /\ ~BoxFits(ws, ks)
     /\ \/ box = "cbox"
        \/ Len(cur) + Len(BlankOf(ks[j])) + Len(ws[j + 1]) > MARGIN

member_arrow(expr, field) == [member(expr, field) EXCEPT !.arrow = TRUE]

LongName == Repeat("x", 40)

ExprArena == alloc(<<>>, Pointer(I32))

ExprTys == {I32, Ref(1)}

Atoms ==
  {raw("42"), value(Scalar(1)), value(Scalar(0 - 3)), value(Local(2)),
   value(Func("foo")), value(Func(LongName))}

\* The expressions one constructor above the operands `es`.
Above(es) ==
  {binary(l, r, "+") : l, r \in es}
    \cup {cast(ty, e) : ty \in ExprTys, e \in es}
    \cup {call(value(Func("foo")), args) : args \in UNION {[1..n -> es] : n \in 0..2}}
    \cup {member(e, "bar") : e \in es}
    \cup {member_arrow(e, "bar") : e \in es}

SmallExprs == Above({value(Scalar(1)), value(Local(2)), value(Func(LongName))})

\* tests/expr.rs, test_expr_complex
TestExprComplex ==
  member(call(value(Func("foo")),
              <<value(Scalar(1)),
                cast(I32, binary(value(Scalar(1)), value(Scalar(2)), "+"))>>),
         "bar")

ExprInputs ==
  Atoms \cup Above(Atoms) \cup Above(SmallExprs) \cup {TestExprComplex}

InitExpr ==
  /\ tyArena = ExprArena
  /\ nodeArena = <<>>
  /\ files = <<>>
  /\ funcArena = <<>>
  /\ module = Module_new(Helper)
  /\ out = NoOut
  /\ calls = <<>>

PrintExpr ==
  /\ out = NoOut
  /\ \E expr \in ExprInputs :
       LET ctx == CExpr_print_to(tyArena, expr)
       IN  out' = [op |-> "print_expr", expr |-> expr,
                   lines |-> Layout(ctx).lines, text |-> finish(ctx)]
  /\ UNCHANGED <<tyArena, funcArena, module, calls, nodeArena, files>>

\* The statements that are not blocks, over the atoms and the expressions
\* one constructor above them, and the declarations they hold.
ExprOperands == Atoms \cup Above(Atoms)

VarInputs ==
  {var(name, ty, init) :
     name \in {Local(42), Func(LongName)}, ty \in ExprTys,
     init \in ExprOperands \cup {NoExpr}}

SimpleStmts ==
  {ret(NoExpr)} \cup {ret(e) : e \in ExprOperands}
    \cup {expr_stmt(e) : e \in ExprOperands}
    \cup {decl_stmt(d) : d \in VarInputs}

PrintSimpleStmt ==
  /\ out = NoOut
  /\ \E stmt \in SimpleStmts :
       LET ctx == CStmt_print_to(tyArena, stmt)
       IN  out' = [op |-> "print_stmt", stmt |-> stmt, words |-> Words(ctx),
                   lines |-> Layout(ctx).lines, text |-> finish(ctx)]
  /\ UNCHANGED <<tyArena, funcArena, module, calls, nodeArena, files>>

PrintVar ==
  /\ out = NoOut
  /\ \E decl \in VarInputs :
       LET ctx == CDecl_print_to(tyArena, decl)
       IN  out' = [op |-> "print_decl", stmt |-> decl_stmt(decl),
                   words |-> Words(ctx), lines |-> Layout(ctx).lines,
                   text |-> finish(ctx)]
  /\ UNCHANGED <<tyArena, funcArena, module, calls, nodeArena, files>>

NextExpr == PrintExpr \/ PrintSimpleStmt \/ PrintVar

SpecExpr == InitExpr /\ [][NextExpr]_vars

\* The abstract declarators of the types of ExprTys (ty.rs, the tests
\* test_print_declarator_primitive and test_print_declarator_pointer).
AbstractDeclarator(ty) == IF ty = I32 THEN "int32_t" ELSE "int32_t *"

RECURSIVE OneLine(_)
RECURSIVE OneLineArgs(_)

\* The arguments on one line, in list order, ", " between them.
OneLineArgs(args) ==
  IF args = <<>> THEN ""
  ELSE IF Len(args) = 1 THEN OneLine(args[1])
  ELSE OneLine(Head(args)) \o ", " \o OneLineArgs(Tail(args))

\* The text C23 gives an expression that fits on one line.
OneLine(expr) ==
  CASE expr.e = "Raw" -> expr.s
    [] expr.e = "Value" ->
         (CASE expr.v.k = "Scalar" -> ToString(expr.v.n)
            [] expr.v.k = "Local" -> "_" \o ToString(expr.v.n)
            [] expr.v.k = "Func" -> expr.v.s)
    [] expr.e = "Binary" ->
         "(" \o OneLine(expr.lhs) \o " " \o expr.op \o " " \o OneLine(expr.rhs) \o ")"
    [] expr.e = "Cast" ->
         "(" \o AbstractDeclarator(expr.ty) \o ") " \o OneLine(expr.expr)
    [] expr.e = "Call" ->
         OneLine(expr.callee) \o "(" \o OneLineArgs(expr.args) \o ")"
    [] expr.e = "Member" ->
         OneLine(expr.expr) \o (IF expr.arrow THEN "->" ELSE ".") \o expr.field

\* C23: an expression printed on one line is the text OneLine gives it.
C23_OneLineExpr ==
  (out.op = "print_expr" /\ Len(out.lines) = 1) => out.text = OneLine(out.expr)

\* C23 happens: the expression of test_expr_complex was printed on a line.
C23_Witness ==
  /\ out.op = "print_expr"
  /\ out.expr = TestExprComplex
  /\ out.lines = <<"foo(1, (int32_t) (1 + 2)).bar">>

\* The declarator of a variable of a type of ExprTys.
DeclaratorText(ty, name) ==
  (IF ty = I32 THEN "int32_t " ELSE "int32_t *") \o OneLine(value(name))

\* The text C24 gives a statement that is not a block.
OneLineStmt(stmt) ==
  CASE stmt.s = "Return" ->
         IF stmt.expr = NoExpr THEN "return;"
         ELSE "return " \o OneLine(stmt.expr) \o ";"
    [] stmt.s = "Expr" -> OneLine(stmt.expr) \o ";"
    [] stmt.s = "Decl" ->
         DeclaratorText(stmt.decl.ty, stmt.decl.name)
           \o (IF stmt.decl.init = NoExpr THEN ""
               ELSE " = " \o OneLine(stmt.decl.init))
           \o ";"

\* The words of a printed statement, the break tokens left out.
SaidWords(words) == SelectSeq(words, LAMBDA w : w # "")

\* C24: a return, an expression statement and a variable declaration, alone
\* or as a statement, end with ";" as their last token and have no other
\* ";" token; on one line they read as OneLineStmt says.
C24_OneSemicolon ==
  out.op \in {"print_stmt", "print_decl"} =>
    /\ Last(SaidWords(out.words)) = ";"
    /\ Count(out.words, ";") = 1
    /\ Len(out.lines) = 1 => out.text = OneLineStmt(out.stmt)

\* C24 happens: the declaration of test_stmt_decl was printed.
C24_Witness ==
  /\ out.op = "print_stmt"
  /\ out.stmt = decl_stmt(var(Local(42), I32, value(Scalar(1))))
  /\ out.text = "int32_t _42 = 1;"

(***************************************************************************)
(* bootstrap/src/test.rs: the test driver.  files holds the test sources   *)
(* glob finds in examples/, tests/codegen/ and tests/bless/, each with the *)
(* directives parse_directives reads from it.  A path is kept in parts     *)
(* (directory, file stem, extension).                                      *)
(***************************************************************************)
RunPass == [d |-> "RunPass", s |-> "", n |-> 0, path |-> <<>>]
CheckStdout(s) == [d |-> "CheckStdout", s |-> s, n |-> 0, path |-> <<>>]
CheckStderr(s) == [d |-> "CheckStderr", s |-> s, n |-> 0, path |-> <<>>]
ExitCode(n) == [d |-> "ExitCode", s |-> "", n |-> n, path |-> <<>>]
\* AuxBuild(fname), fname relative to tests/auxiliary
AuxBuild(dir, stem, ext) ==
  [d |-> "AuxBuild", s |-> "", n |-> 0, path |-> <<dir, stem, ext>>]

\* Path::file_stem of tests/auxiliary joined with fname
file_stem(path) == path[2]

TestCase_new(name, source, test) == [name |-> name, source |-> source, test |-> test]

\* The cases of one directory, in glob order.
RECURSIVE CasesOf(_, _, _)
CasesOf(dir, test, sources) ==
  IF sources = <<>> THEN <<>>
  ELSE <<TestCase_new(dir \o "/" \o Head(sources).stem, Head(sources), test)>>
         \o CasesOf(dir, test, Tail(sources))

\* Mutant: an auxiliary is pushed whether or not its name is in the list.
push_auxiliary_NoDedup(auxiliaries, directive) ==
  IF directive.d # "AuxBuild" THEN auxiliaries
  ELSE Append(auxiliaries,
              TestCase_new("auxiliary/" \o file_stem(directive.path),
                           directive.path, "CompileLib"))

\* The body of the loop over the directives of a case: an AuxBuild whose
\* name is not yet in the list is pushed.
push_auxiliary(auxiliaries, directive) ==
  IF directive.d # "AuxBuild" THEN auxiliaries
  ELSE LET name == "auxiliary/" \o file_stem(directive.path)
       IN  IF \E i \in 1..Len(auxiliaries) : auxiliaries[i].name = name
           THEN auxiliaries
           ELSE Append(auxiliaries, TestCase_new(name, directive.path, "CompileLib"))

RECURSIVE AuxOfDirectives(_, _)
AuxOfDirectives(auxiliaries, directives) ==
  IF directives = <<>> THEN auxiliaries
  ELSE AuxOfDirectives(push_auxiliary(auxiliaries, Head(directives)),
                       Tail(directives))

RECURSIVE AuxOfCases(_, _)
AuxOfCases(auxiliaries, cases) ==
  IF cases = <<>> THEN auxiliaries
  ELSE AuxOfCases(AuxOfDirectives(auxiliaries, Head(cases).source.directives),
                  Tail(cases))

collect_testcases(fs) ==
  LET cases == CasesOf("examples", "Compile", fs.examples)
                 \o CasesOf("codegen", "FileCheck", fs.codegen)
                 \o CasesOf("bless", "Bless", fs.bless)
  IN  AuxOfCases(<<>>, cases) \o cases

(***************************************************************************)
(* SpecCollect: collect_testcases over what is on disk.                    *)
(***************************************************************************)
AuxA == AuxBuild("", "a", "rs")
AuxB == AuxBuild("", "b", "rs")
\* a second file with the stem of AuxA
AuxSubA == AuxBuild("sub", "a", "rs")

DirectiveLists ==
  {<<>>, <<AuxA>>, <<RunPass, AuxB>>, <<AuxB, AuxA>>, <<AuxSubA>>,
   <<AuxA, AuxA>>, <<AuxA, RunPass, AuxB>>}

\* The sources of a directory: none, one, or two in glob order.
SourcesOf(stems) ==
  {<<>>} \cup {<<[stem |-> stems[1], directives |-> ds]>> : ds \in DirectiveLists}
    \cup {<<[stem |-> stems[1], directives |-> <<AuxB>>],
            [stem |-> stems[2], directives |-> <<AuxA, AuxB>>]>>}

InitCollect ==
  /\ tyArena = <<>>
  /\ nodeArena = <<>>
  /\ funcArena = <<>>
  /\ module = Module_new("")
  /\ out = NoOut
  /\ calls = <<>>
  /\ \E e \in SourcesOf(<<"e1", "e2">>), c \in SourcesOf(<<"c1", "c2">>),
        b \in SourcesOf(<<"b1", "b2">>) :
       files = [examples |-> e, codegen |-> c, bless |-> b]

CollectTestcases ==
  /\ out = NoOut
  /\ out' = [op |-> "collect", testcases |-> collect_testcases(files)]
  /\ UNCHANGED <<tyArena, funcArena, module, calls, nodeArena, files>>

NextCollect == CollectTestcases

SpecCollect == InitCollect /\ [][NextCollect]_vars

\* The auxiliary names the directives of the sources on disk ask for.
AskedAux ==
  {"auxiliary/" \o d.path[2] :
     d \in {d \in UNION {Range(src.directives) :
                           src \in Range(files.examples) \cup Range(files.codegen)
                                     \cup Range(files.bless)} : d.d = "AuxBuild"}}

\* The place in the order examples, codegen tests, bless tests.
RankOf(test) ==
  CASE test = "Compile" -> 1 [] test = "FileCheck" -> 2 [] test = "Bless" -> 3

\* C25: in the list of collect_testcases every auxiliary asked for by a
\* directive is there exactly once and nothing else is an auxiliary, every
\* auxiliary comes before every other case, and the other cases are all
\* the sources on disk, examples first, then codegen tests, then bless
\* tests.
C25_AuxiliariesFirstOnce ==
  out.op = "collect" =>
    LET ts == out.testcases
        IsAux(i) == ts[i].test = "CompileLib"
    IN  /\ \A name \in AskedAux :
             Cardinality({i \in DOMAIN ts : ts[i].name = name /\ IsAux(i)}) = 1
        /\ \A i \in DOMAIN ts : IsAux(i) => ts[i].name \in AskedAux
        /\ \A i, j \in DOMAIN ts : (IsAux(i) /\ ~IsAux(j)) => i < j
        /\ \A i, j \in DOMAIN ts :
             (~IsAux(i) /\ ~IsAux(j) /\ i < j) => RankOf(ts[i].test) <= RankOf(ts[j].test)
        /\ Cardinality({i \in DOMAIN ts : ~IsAux(i)})
             = Len(files.examples) + Len(files.codegen) + Len(files.bless)

\* C25 happens: two cases ask for the auxiliary a, one of them twice, and a
\* third asks for b; the list has a and b once each, before the cases.
C25_Witness ==
  /\ out.op = "collect"
  /\ files.examples # <<>> /\ files.examples[1].directives = <<AuxA, AuxA>>
  /\ files.codegen # <<>> /\ files.codegen[1].directives = <<AuxSubA>>
  /\ files.bless # <<>> /\ files.bless[1].directives = <<RunPass, AuxB>>
  /\ Len(out.testcases) = 5
  /\ out.testcases[1].name = "auxiliary/a"
  /\ out.testcases[2].name = "auxiliary/b"

(***************************************************************************)
(* SpecDirectives: check_and_run_directives on a list of directives, and   *)
(* the program it may run, whose exit code and output are the              *)
(* environment's.                                                          *)
(***************************************************************************)
\* Option<i32> and Option<String>
NoCode == [some |-> FALSE, v |-> 0]
SomeCode(n) == [some |-> TRUE, v |-> n]
NoText == [some |-> FALSE, v |-> ""]
SomeText(s) == [some |-> TRUE, v |-> s]

\* The match on one directive: the flag or the expectation it sets.
set_directive(st, directive) ==
  CASE directive.d = "RunPass" -> [st EXCEPT !.runpass = TRUE]
    [] directive.d = "CheckStdout" -> [st EXCEPT !.stdout = SomeText(directive.s)]
    [] directive.d = "CheckStderr" -> [st EXCEPT !.stderr = SomeText(directive.s)]
    [] directive.d = "ExitCode" -> [st EXCEPT !.exitcode = SomeCode(directive.n)]
    [] directive.d = "AuxBuild" -> st

RECURSIVE set_directives(_, _)
set_directives(st, directives) ==
  IF directives = <<>> THEN st
  ELSE set_directives(set_directive(st, Head(directives)), Tail(directives))

\* Mutant: only a missing run-pass next to an exit code is a conflict.
conflicts_ExitCodeOnly(st) == ~st.runpass /\ st.exitcode.some

\* !runpass && (exitcode.is_some() | stdout.is_some() | stderr.is_some())
conflicts(st) ==
  ~st.runpass /\ (st.exitcode.some \/ st.stdout.some \/ st.stderr.some)

\* run_and_check_output on a program that does `actual`: a panic when it
\* cannot be started or is ended by a signal, else the expected exit code
\* and exit(1) on the first mismatch.
run_and_check_output(st, actual) ==
  LET expected_exit == IF st.exitcode.some THEN st.exitcode.v ELSE 0
  IN  [ran |-> TRUE, expected_exit |-> expected_exit,
       result |-> IF actual.how # "exit" THEN "panic"
                  ELSE IF actual.code # expected_exit THEN "exit(1)"
                  ELSE IF st.stdout.some /\ actual.stdout # st.stdout.v THEN "exit(1)"
                  ELSE IF st.stderr.some /\ actual.stderr # st.stderr.v THEN "exit(1)"
                  ELSE "passed"]

check_and_run_directives(directives, actual) ==
  LET st == set_directives([runpass |-> FALSE, exitcode |-> NoCode,
                            stdout |-> NoText, stderr |-> NoText], directives)
  IN  IF conflicts(st) THEN [ran |-> FALSE, expected_exit |-> 0, result |-> "panic"]
      ELSE IF st.runpass THEN run_and_check_output(st, actual)
      ELSE [ran |-> FALSE, expected_exit |-> 0, result |-> "passed"]

DirectiveInputs ==
  {RunPass, CheckStdout("ok"), CheckStderr("err"), ExitCode(0), ExitCode(1), AuxA}

MaxDirectives == 3

\* What the compiled program does when it is run.
ActualInputs ==
  [how : {"exit"}, code : {0, 1}, stdout : {"ok", "no"}, stderr : {"", "err"}]
    \cup [how : {"signal", "not started"}, code : {0}, stdout : {""}, stderr : {""}]

InitDirectives ==
  /\ tyArena = <<>>
  /\ nodeArena = <<>>
  /\ files = <<>>
  /\ funcArena = <<>>
  /\ module = Module_new("")
  /\ out = NoOut
  /\ calls = <<>>

CheckAndRun ==
  /\ out = NoOut
  /\ \E directives \in UNION {[1..n -> DirectiveInputs] : n \in 0..MaxDirectives},
        actual \in ActualInputs :
       LET res == check_and_run_directives(directives, actual)
       IN  out' = [op |-> "check", directives |-> directives,
                   actual |-> IF res.ran THEN actual ELSE <<>>,
                   ran |-> res.ran, expected_exit |-> res.expected_exit,
                   result |-> res.result]
  /\ UNCHANGED <<tyArena, funcArena, module, calls, nodeArena, files>>

NextDirectives == CheckAndRun

SpecDirectives == InitDirectives /\ [][NextDirectives]_vars

Has(directives, d) == \E i \in 1..Len(directives) : directives[i].d = d

\* C26: the program is run iff a run-pass directive is in the list; when an
\* exit-code, check-stdout or check-stderr directive is there without
\* run-pass the call panics and nothing has run; with run-pass and no
\* exit-code the expected exit code is 0.
C26_RunIffRunPass ==
  out.op = "check" =>
    LET ds == out.directives
        checks == Has(ds, "ExitCode") \/ Has(ds, "CheckStdout") \/ Has(ds, "CheckStderr")
    IN  /\ out.ran <=> Has(ds, "RunPass")
        /\ (checks /\ ~Has(ds, "RunPass")) => (out.result = "panic" /\ ~out.ran)
        /\ (Has(ds, "RunPass") /\ ~Has(ds, "ExitCode")) => out.expected_exit = 0

\* C26 happens: a check-stdout without run-pass has panicked and run
\* nothing.
C26_Witness ==
  /\ out.op = "check"
  /\ out.directives = <<AuxA, CheckStdout("ok")>>
  /\ out.result = "panic"
  /\ ~out.ran

\* ---------------------------------------------------------------------
\* tests/blessed_test/mod.rs: we model the golden-file test.  `files` maps a
\* test name to what is stored at tests/blessed/<name>.out.
\* ---------------------------------------------------------------------

Missing == [kind |-> "missing", text |-> ""]

Text(t) == [kind |-> "text", text |-> t]

\* A stored file whose bytes are not UTF-8.
Bytes == [kind |-> "bytes", text |-> ""]

\* std::fs::read_to_string(path).unwrap_or_default(): the text of a readable
\* file, the empty string on any error.
read_to_string_or_default(stored) ==
  IF stored.kind = "text" THEN stored.text ELSE ""

\* The values RUST_BLESS takes in the environment of the test process.
EnvInputs == {"unset", "", "1", "not unicode"}

\* std::env::var(key): Err(NotPresent) for an unset variable,
\* Err(NotUnicode) for a value that is not valid Unicode, Ok(value) else.
env_var(v) ==
  IF v = "unset" THEN [ok |-> FALSE, err |-> "NotPresent", v |-> ""]
  ELSE IF v = "not unicode" THEN [ok |-> FALSE, err |-> "NotUnicode", v |-> ""]
  ELSE [ok |-> TRUE, err |-> "", v |-> v]

\* blessed_test(name, bless) with `output` the string bless() returns: the
\* stored files afterwards and whether the assertion held.
blessed_test(fs, name, output, env) ==
  LET expected_output == read_to_string_or_default(fs[name])
  IN  IF env_var(env).ok
      THEN [files |-> [fs EXCEPT ![name] = Text(output)], result |-> "ok"]
      ELSE [files |-> fs,
            result |-> IF output = expected_output THEN "ok" ELSE "failed"]

TestNames == {"test_expr_complex", "test_stmt_block"}

BlessOutputs == {"", "foo", "foo(1)"}

NoCall == [name |-> "", env |-> "unset", output |-> "", result |-> "ok"]

InitBless ==
  /\ tyArena = <<>>
  /\ funcArena = <<>>
  /\ module = Module_new("")
  /\ out = NoOut
  /\ calls = <<>>
  /\ nodeArena = <<>>
  /\ files \in [TestNames -> {Missing, Bytes, Text("foo")}]

\* One #[test] function of tests/*.rs running blessed_test.
BlessedTest ==
  /\ Len(calls) < MaxEmits
  /\ \E name \in TestNames, output \in BlessOutputs, env \in EnvInputs :
       LET r == blessed_test(files, name, output, env)
       IN  /\ files' = r.files
           /\ out' = [op |-> "blessed_test", name |-> name, env |-> env,
                      output |-> output, before |-> files[name],
                      result |-> r.result,
                      prev |-> IF calls = <<>> THEN NoCall
                               ELSE [name |-> out.name, env |-> out.env,
                                     output |-> out.output,
                                     result |-> out.result]]
  /\ calls' = Append(calls, "blessed_test")
  /\ UNCHANGED <<tyArena, funcArena, module, nodeArena>>

NextBless == BlessedTest

SpecBless == InitBless /\ [][NextBless]_vars

\* The content a stored file counts as: a missing file is empty content.
ContentOfStored(stored) == IF stored.kind = "missing" THEN "" ELSE stored.text

\* C27: with RUST_BLESS set a blessed_test call stores the produced output in
\* the test's file and does not fail; with RUST_BLESS unset it passes iff the
\* produced output equals the stored content (a missing file being empty
\* content) and leaves the file as it was; and a call with RUST_BLESS set
\* followed by a call for the same test with RUST_BLESS unset and the same
\* output passes.
C27_BlessThenCheck ==
  out.op = "blessed_test" =>
    /\ out.env # "unset" =>
         /\ files[out.name] = Text(out.output)
         /\ out.result = "ok"
    /\ out.env = "unset" =>
         /\ (out.result = "ok") <=>
              (out.before.kind # "bytes"
                 /\ out.output = ContentOfStored(out.before))
         /\ files[out.name] = out.before
    /\ (Len(calls) > 1 /\ out.prev.name = out.name /\ out.prev.env # "unset"
          /\ out.env = "unset" /\ out.prev.output = out.output) =>
         out.result = "ok"

(***************************************************************************)
(* SpecRead: printing between the calls that change the tree.  One         *)
(* function is built up by push_stmt and next_local_var while the module,  *)
(* a function, a prototype, a statement or a declaration is printed; out   *)
(* holds, for a print call, the text, the tree as it was before the call   *)
(* (before) and the local next_local_var would have given then (would).    *)
(***************************************************************************)

\* Mutant: printing a function draws a fresh local from its counter.
CFuncKind_borrowed_Counts(func) == [func EXCEPT !.local_var_counter = @ + 1]

\* The function after a print call on it: `self.0.body.borrow()` only reads
\* the body, and local_var_counter is not touched.
CFuncKind_borrowed(func) == func

ReadStmts == {ret(NoExpr), decl_stmt(var(Local(1), I32, NoExpr))}

InitRead ==
  /\ tyArena = <<>>
  /\ nodeArena = <<>>
  /\ files = <<>>
  /\ funcArena = <<CFuncKind_new("foo", I32, <<I32>>)>>
  /\ \E names \in {[i \in 1..n |-> "stdio.h"] : n \in {0, MaxIncludes}},
        decls \in {[i \in 1..n |-> var(Local(42), I32, NoExpr)] : n \in {0, MaxDecls}},
        funcs \in {<<>>, <<1>>} :
       module = PushedFuncs(PushedDecls(PushedIncludes(Module_new(Helper), names),
                                        decls), funcs)
  /\ out = NoOut
  /\ calls = <<>>

PushStmtRead(stmt) ==
  /\ Len(funcArena[1].body) < MaxBody
  /\ funcArena' = [funcArena EXCEPT ![1] = push_stmt(@, stmt)]
  /\ out' = NoOut
  /\ UNCHANGED <<tyArena, module, calls, nodeArena, files>>

NextLocalVarRead ==
  /\ Len(calls) < MaxIssued
  /\ LET r == next_local_var(funcArena[1])
     IN  /\ funcArena' = [funcArena EXCEPT ![1] = r.func]
         /\ calls' = Append(calls, r.val)
  /\ out' = [op |-> "next_local_var", val |-> next_local_var(funcArena[1]).val]
  /\ UNCHANGED <<tyArena, module, nodeArena, files>>

\* What a print call leaves in out.
Read(op, toks) ==
  [op |-> op, text |-> finish(toks),
   before |-> [module |-> module, funcArena |-> funcArena],
   would |-> next_local_var(funcArena[1]).val]

\* The functions a print call has gone through, as it leaves them.
Borrowed(fa, hs) ==
  [h \in DOMAIN fa |-> IF h \in hs THEN CFuncKind_borrowed(fa[h]) ELSE fa[h]]

PrintModuleRead ==
  /\ out' = Read("module", Module_print_to(tyArena, funcArena, module))
  /\ module' = Module_borrowed(module)
  /\ funcArena' = Borrowed(funcArena, {module.funcs[i] : i \in DOMAIN module.funcs})
  /\ UNCHANGED <<tyArena, calls, nodeArena, files>>

PrintFuncRead(h) ==
  /\ out' = Read("function", CFunc_print_to(tyArena, funcArena[h]))
  /\ funcArena' = Borrowed(funcArena, {h})
  /\ UNCHANGED <<tyArena, module, calls, nodeArena, files>>

PrintFuncDeclRead(h) ==
  /\ out' = Read("prototype", print_func_decl(tyArena, funcArena[h]))
  /\ funcArena' = Borrowed(funcArena, {h})
  /\ UNCHANGED <<tyArena, module, calls, nodeArena, files>>

PrintStmtRead(i) ==
  /\ out' = Read("statement", CStmt_print_to(tyArena, funcArena[1].body[i]))
  /\ UNCHANGED <<tyArena, funcArena, module, calls, nodeArena, files>>

PrintDeclRead(i) ==
  /\ out' = Read("declaration", CDecl_print_to(tyArena, module.decls[i]))
  /\ UNCHANGED <<tyArena, funcArena, module, calls, nodeArena, files>>

NextRead ==
  \/ \E stmt \in ReadStmts : PushStmtRead(stmt)
  \/ NextLocalVarRead
  \/ PrintModuleRead
  \/ \E h \in DOMAIN funcArena : PrintFuncRead(h)
  \/ \E h \in DOMAIN funcArena : PrintFuncDeclRead(h)
  \/ \E i \in DOMAIN funcArena[1].body : PrintStmtRead(i)
  \/ \E i \in DOMAIN module.decls : PrintDeclRead(i)

SpecRead == InitRead /\ [][NextRead]_vars

PrintOps == {"module", "function", "prototype", "statement", "declaration"}

\* C29: after printing a module, a function, a prototype, a statement or a
\* declaration the module's include, declaration and function lists and
\* every function's body and fresh-local counter are what they were before
\* the call, and next_local_var gives the local it would have given before.
C29_PrintingReadsOnly ==
  out.op \in PrintOps =>
    /\ module.includes = out.before.module.includes
    /\ module.decls = out.before.module.decls
    /\ module.funcs = out.before.module.funcs
    /\ \A h \in DOMAIN funcArena :
         /\ funcArena[h].body = out.before.funcArena[h].body
         /\ funcArena[h].local_var_counter
              = out.before.funcArena[h].local_var_counter
    /\ next_local_var(funcArena[1]).val = out.would

\* C29 happens: the module holding foo, with two statements in its body and
\* one local issued, has just been emitted.
C29_Witness ==
  /\ out.op = "module"
  /\ module.funcs = <<1>>
  /\ Len(funcArena[1].body) = 2
  /\ calls = <<Local(1)>>
  /\ out.would = Local(2)

(***************************************************************************)
(* SpecUnwrap: the loop of print_declarator one iteration at a time,       *)
(* within an emission that prints one declarator for every type of the     *)
(* arena.  out holds the types still to print (queue), where the emission  *)
(* is (pc), the loop's variables (ty, parts, iters) with the type the call *)
(* was given (ty0), and whether a call has returned (returned).            *)
(***************************************************************************)

\* Mutant: the loop goes on through pointer layers only.
LoopCond_PointerOnly(arena, ty) == ty.k = "Ref" /\ arena[ty.h].kind = "Pointer"

\* `while let CTy::Ref(kind) = ty`
LoopCond(arena, ty) == ty.k = "Ref"

\* `ty = match kind.0 { Pointer(ty) => *ty, Array(ty, _) => *ty }`
Inner(arena, ty) == arena[ty.h].ty

InitUnwrap ==
  /\ tyArena \in ChainArenas
  /\ nodeArena = <<>>
  /\ files = <<>>
  /\ funcArena = <<>>
  /\ module = Module_new("")
  /\ out = NoOut
  /\ calls = <<>>

\* The emission starts, one declarator to print per type of the tree.
StartEmit ==
  /\ out = NoOut
  /\ \E base \in BaseTys :
       out' = [op |-> "emit", pc |-> "next",
               queue |-> <<base>> \o [h \in 1..Len(tyArena) |-> Ref(h)],
               ty0 |-> base, ty |-> base, parts |-> <<>>, iters |-> 0,
               returned |-> FALSE]
  /\ UNCHANGED <<tyArena, funcArena, module, calls, nodeArena, files>>

\* print_declarator is called on the next type, up to the loop.
EnterDeclarator ==
  /\ out.op = "emit"
  /\ out.pc = "next"
  /\ out.queue # <<>>
  /\ out' = [out EXCEPT !.pc = "loop", !.queue = Tail(@),
                        !.ty0 = Head(out.queue), !.ty = Head(out.queue),
                        !.parts = <<Ident(Local(0))>>, !.iters = 0]
  /\ UNCHANGED <<tyArena, funcArena, module, calls, nodeArena, files>>

\* One iteration of the loop.
UnwrapStep ==
  /\ out.op = "emit"
  /\ out.pc = "loop"
  /\ LoopCond(tyArena, out.ty)
  /\ LET kind == tyArena[out.ty.h]
     IN  out' = [out EXCEPT !.parts = IF kind.kind = "Pointer"
                                      THEN PointerStep(tyArena, kind.ty, @)
                                      ELSE ArrayStep(kind.dim, @),
                            !.ty = Inner(tyArena, out.ty),
                            !.iters = @ + 1]
  /\ UNCHANGED <<tyArena, funcArena, module, calls, nodeArena, files>>

\* The loop ends and the call returns.
UnwrapExit ==
  /\ out.op = "emit"
  /\ out.pc = "loop"
  /\ ~LoopCond(tyArena, out.ty)
  /\ out' = [out EXCEPT !.pc = "next", !.returned = TRUE]
  /\ UNCHANGED <<tyArena, funcArena, module, calls, nodeArena, files>>

\* Nothing is left to print.
EndEmit ==
  /\ out.op = "emit"
  /\ out.pc = "next"
  /\ out.queue = <<>>
  /\ out' = [out EXCEPT !.pc = "emitted"]
  /\ UNCHANGED <<tyArena, funcArena, module, calls, nodeArena, files>>

NextUnwrap ==
  StartEmit \/ EnterDeclarator \/ UnwrapStep \/ UnwrapExit \/ EndEmit

SpecUnwrap == InitUnwrap /\ [][NextUnwrap]_vars

\* The emission is one thread of Rust code: it goes on while it can.
SpecUnwrapFair == SpecUnwrap /\ WF_vars(NextUnwrap)

\* C30: when the loop of print_declarator has ended it has made as many
\* iterations as the type has pointer and array layers and the type left
\* is primitive; and the emission comes to its end.
C30_LoopEndsAtPrimitive ==
  /\ [](out.op = "emit" /\ out.returned /\ out.pc # "loop" =>
          /\ out.iters = Len(LayersOf(tyArena, out.ty0))
          /\ is_primitive(out.ty)
          /\ out.ty = BaseOf(tyArena, out.ty0))
  /\ <>(out.op = "emit" /\ out.pc = "emitted")

\* C30 happens: the loop has ended on a type of four layers, pointers and
\* arrays both, and the emission has ended.
C30_Witness ==
  /\ out.op = "emit"
  /\ out.pc = "emitted"
  /\ out.iters = 4
  /\ LayersOf(tyArena, out.ty0) = <<PtrL, ArrL(3), ArrL(5), PtrL>>
====
